---- MODULE Spec2Model ----
(***************************************************************************)
(* Model of eiffelv/user-profile-manager: the client-side cache store      *)
(* (APICache, withCache), the Profile API client (UserProfileAPI), the     *)
(* Express backend and the pagination/search coordinator (App).            *)
(*                                                                         *)
(* Several specifications share the variables below:                       *)
(*   SpecCache   - APICache under arbitrary call sequences                 *)
(*   SpecCorrupt - APICache over a localStorage item that is no entry      *)
(*   SpecReload  - APICache across reloads of the page                     *)
(*   SpecKeys    - APICache called for endpoints that differ in one        *)
(*                 character                                               *)
(*   SpecWrap    - withCache around one operation, next to direct calls    *)
(*   SpecApi     - UserProfileAPI operations against the backend           *)
(*   Spec        - the App coordinator, the API client and the list        *)
(*                 endpoint the client is written against; the form        *)
(*                 handlers are not part of it                             *)
(*   SpecBackend - the App coordinator against the list handler of         *)
(*                 server.ts                                               *)
(*   SpecMutate  - the App coordinator creating, updating and deleting     *)
(*                 profiles through the form and the delete dialog         *)
(*   SpecScanForm - a profile scanned from an image, then the form         *)
(*   SpecQR      - QRCodeModal and the handlers of App that open it and    *)
(*                 receive its callbacks                                   *)
(* Strings that the code inspects character by character (cache keys) are  *)
(* sequences of ASCII codes.  The clock unit is one minute.                *)
(***************************************************************************)
EXTENDS Integers, Sequences, FiniteSets, TLC

VARIABLES
    memoryCache,    \* APICache.memoryCache: Map in insertion order
    localStorage,   \* window.localStorage: key -> item
    now,            \* Date.now()
    watched,        \* history: the (endpoint, params) whose calls are logged
    lastOp,         \* history: the most recent call on `watched` and its result
    setLog,         \* history: the most recent set for `watched`
    wcPending,      \* withCache: per argument list, calls awaiting the operation
    wcStored,       \* history: results withCache handed to apiCache.set
    wcLog           \* history: per argument list, the last call that invoked fn

cacheVars == <<memoryCache, localStorage, now, watched, lastOp, setLog,
               wcPending, wcStored, wcLog>>

VARIABLES
    db,             \* the users table, in creation order
    nextId,         \* the next id the database generates
    apiResult       \* history: the last UserProfileAPI call, its HTTP outcome
                    \* and what it returned

serverVars == <<db, nextId>>

VARIABLES
    users,                  \* App state: the displayed profiles
    pagination,             \* App state: the displayed page descriptor
    isLoading,              \* App state
    searchQuery,            \* App state: the text of the search input
    debouncedSearchQuery,   \* useDebounce(searchQuery, 300)
    timerArmed,             \* useDebounce: its timeout is pending
    currentPage,            \* App state
    showDeleteModal,        \* App state
    userToDelete,           \* App state
    requests,               \* the HTTP requests of the App in flight
    latestFetch,            \* history: the list fetch dispatched last
    failedFetch,            \* history: some list fetch has failed
    deleted,                \* history: ids whose delete the App saw succeed
    burst                   \* history: the current or last burst of typing

appVars == <<users, pagination, isLoading, searchQuery, debouncedSearchQuery,
             timerArmed, currentPage, showDeleteModal, userToDelete, requests,
             latestFetch, failedFetch, deleted, burst>>

VARIABLES
    showForm,               \* App state
    editingUser,            \* App state
    scannedUserData,        \* App state: what the form is prefilled with
    showQRModal,            \* App state
    qrModalMode,            \* App state: 'generate' or 'scan'
    qrUser                  \* App state: the profile the QR code is made for

formVars == <<showForm, editingUser, scannedUserData, showQRModal,
              qrModalMode, qrUser>>

VARIABLES
    notifications,          \* App state: the notifications on display
    isFormLoading           \* App state

noteVars == <<notifications, isFormLoading>>

VARIABLES
    qrCodeDataUrl,          \* QRCodeModal state: the text the image carries
    isScanning,             \* QRCodeModal state
    cameraError,            \* QRCodeModal state
    uploadError,            \* QRCodeModal state
    hasCamera,              \* QRCodeModal state
    cameras,                \* QRCodeModal state: the listed devices
    selectedCameraId,       \* QRCodeModal state
    qrScannerRef,           \* QRCodeModal ref: index into scanners, 0 is null
    scanners,               \* every QrScanner instance the modal created
    tasks,                  \* awaits and timers of the modal in flight
    mountId,                \* how many times App has mounted the modal
    lastScan,               \* history: the scan that has just ended
    lastSwitch              \* history: the camera switch that has just ended

qrVars == <<qrCodeDataUrl, isScanning, cameraError, uploadError, hasCamera,
            cameras, selectedCameraId, qrScannerRef, scanners, tasks,
            mountId, lastScan, lastSwitch>>

\* what the cache actions, the API calls, the coordinator and the QR modal
\* leave alone
outsideCache == <<serverVars, apiResult, appVars, formVars, noteVars, qrVars>>
outsideApi == <<cacheVars, appVars, formVars, noteVars, qrVars>>
outsideApp == <<cacheVars, serverVars, apiResult, formVars, noteVars, qrVars>>
outsideQR == <<cacheVars, serverVars, apiResult, appVars, noteVars>>
\* what the handlers of App around its requests leave alone
outsideHandlers == <<cacheVars, serverVars, apiResult, qrVars>>

vars == <<cacheVars, serverVars, apiResult, appVars, formVars, noteVars,
          qrVars>>

----------------------------------------------------------------------------
(* Bounds of the model *)

\* capacity of the memory layer; the source sets 100 (apiCache.ts:15), the
\* model keeps the comparison and scales the number
MAX_MEMORY_ITEMS == 2
MaxTime == 1
MaxTtl == 1
\* calls of one argument list that may overlap
MaxPending == 2

----------------------------------------------------------------------------
(* JavaScript values *)

Undefined == [kind |-> "undefined"]
Null == [kind |-> "null"]

\* 5 * 60 * 1000 ms, in minutes
DEFAULT_TTL == (5 * 60 * 1000) \div 60000

\* JSON.stringify(data).length threshold for the localStorage copy
LS_MAX_LEN == 100000

\* A result object {success?, n, opt?} as an operation returns it.  len is
\* JSON.stringify(data).length.
Obj(success, n, opt, len) ==
    [kind |-> "object", success |-> success, n |-> n, opt |-> opt, len |-> len]

OkA == Obj("true", 1, "absent", 40)
OkB == Obj("true", 2, "absent", 40)
OkBig == Obj("true", 3, "absent", 100000)
OkUndef == Obj("true", 1, "undefined", 40)
Failed == Obj("false", 1, "absent", 40)
NoMarker == Obj("missing", 1, "absent", 40)

\* JSON.parse(JSON.stringify(v)): a property whose value is undefined is
\* dropped by stringify
JsonRoundTrip(v) ==
    IF v.kind = "object" /\ v.opt = "undefined"
    THEN [v EXCEPT !.opt = "absent"]
    ELSE v

JsonLength(v) == IF v.kind = "object" THEN v.len ELSE 4

\* JavaScript truthiness of the values above
Truthy(v) == v.kind = "object"

----------------------------------------------------------------------------
(* Strings as ASCII codes *)

\* "api_cache_"
ApiPrefix == <<97, 112, 105, 95, 99, 97, 99, 104, 101, 95>>
\* "img_cache_"
ImgPrefix == <<105, 109, 103, 95, 99, 97, 99, 104, 101, 95>>

\* one base64 digit (0..63) as its ASCII code
B64Char(i) ==
    IF i < 26 THEN 65 + i
    ELSE IF i < 52 THEN 97 + (i - 26)
    ELSE IF i < 62 THEN 48 + (i - 52)
    ELSE IF i = 62 THEN 43
    ELSE 47

RECURSIVE Btoa(_)
Btoa(b) ==
    IF Len(b) = 0 THEN <<>>
    ELSE IF Len(b) = 1 THEN
        <<B64Char(b[1] \div 4), B64Char((b[1] % 4) * 16), 61, 61>>
    ELSE IF Len(b) = 2 THEN
        LET n == b[1] * 256 + b[2]
        IN <<B64Char(n \div 1024), B64Char((n \div 16) % 64),
             B64Char((n % 16) * 4), 61>>
    ELSE
        LET n == b[1] * 65536 + b[2] * 256 + b[3]
        IN <<B64Char(n \div 262144), B64Char((n \div 4096) % 64),
             B64Char((n \div 64) % 64), B64Char(n % 64)>>
           \o Btoa(SubSeq(b, 4, Len(b)))

IsAlnum(c) ==
    \/ (c >= 48 /\ c <= 57)
    \/ (c >= 65 /\ c <= 90)
    \/ (c >= 97 /\ c <= 122)

\* s.replace(/[^a-zA-Z0-9]/g, '')
StripNonAlnum(s) == SelectSeq(s, IsAlnum)

\* String.prototype.includes
Includes(s, pat) ==
    \E i \in 0..(Len(s) - Len(pat)) : SubSeq(s, i + 1, i + Len(pat)) = pat

\* String.prototype.startsWith
StartsWith(s, pat) ==
    Len(s) >= Len(pat) /\ SubSeq(s, 1, Len(pat)) = pat

----------------------------------------------------------------------------
(* Cache keys *)

\* "/u"
EndpointU == <<47, 117>>
\* "/p"
EndpointP == <<47, 112>>

\* params objects: undefined, or the {args} object withCache builds
ArgsParam(a) == [kind |-> "args", arg |-> a]

\* JSON.stringify(params): {"args":[a]} for a one-digit number a
JsonStringifyParams(p) ==
    <<123, 34, 97, 114, 103, 115, 34, 58, 91, 48 + p.arg, 93, 125>>

generateKey(endpoint, params) ==
    LET paramString == IF params = Undefined THEN <<>>
                       ELSE JsonStringifyParams(params)
    IN ApiPrefix \o StripNonAlnum(Btoa(endpoint \o paramString))

generateImageCacheKey(url) == ImgPrefix \o StripNonAlnum(Btoa(url))

\* the (endpoint, params) pairs the callers of the model use
Pair(e, p) == [endpoint |-> e, params |-> p]
WcArgs == {1}
Pairs == {Pair(EndpointP, Undefined)}
         \cup {Pair(EndpointU, ArgsParam(a)) : a \in {1, 2}}
NoPair == Pair(<<>>, Undefined)

\* two endpoints that differ in one character: "/u>" and "/u?"
IsolationPairs == {Pair(EndpointU \o <<62>>, Undefined),
                   Pair(EndpointU \o <<63>>, Undefined)}
\* an endpoint with a character outside Latin-1: "/" and the euro sign
EuroPair == Pair(<<47, 8364>>, Undefined)

\* btoa throws InvalidCharacterError on a code unit above 255; generateKey
\* calls it outside any try
BtoaThrows(s) == \E i \in 1..Len(s) : s[i] > 255
KeyThrows(q) ==
    BtoaThrows(q.endpoint \o (IF q.params = Undefined THEN <<>>
                              ELSE JsonStringifyParams(q.params)))

\* generateKey on the calls of the model, derived once
KeyTable ==
    [q \in Pairs \cup IsolationPairs \cup {NoPair} |->
        generateKey(q.endpoint, q.params)]
KeyOf(q) == KeyTable[q]
Key(endpoint, params) == KeyTable[Pair(endpoint, params)]

\* an image the image utilities cached: "a.png"
ImgUrl == <<97, 46, 112, 110, 103>>
LSKeys == {KeyOf(q) : q \in Pairs \cup IsolationPairs}
          \cup {generateImageCacheKey(ImgUrl)}

NoItem == [kind |-> "none"]
\* text that JSON.parse rejects (a data URL, a truncated entry)
RawItem == [kind |-> "raw"]
\* JSON text of an object without timestamp and ttl
JsonItem == [kind |-> "json"]
EntryItem(data, timestamp, ttl) ==
    [kind |-> "entry", data |-> data, timestamp |-> timestamp, ttl |-> ttl]

\* localStorage.getItem / setItem / removeItem on the model's key space
LsSet(ls, key, item) == [ls EXCEPT ![key] = item]
LsRemove(ls, key) == [ls EXCEPT ![key] = NoItem]

----------------------------------------------------------------------------
(* APICache *)

MemEntry(key, data, timestamp, ttl) ==
    [key |-> key, data |-> data, timestamp |-> timestamp, ttl |-> ttl]

MemHas(m, key) == \E i \in 1..Len(m) : m[i].key = key
MemIndex(m, key) == CHOOSE i \in 1..Len(m) : m[i].key = key

\* Map.prototype.set: an existing key keeps its place in the iteration order
MemSet(m, e) ==
    IF MemHas(m, e.key) THEN [m EXCEPT ![MemIndex(m, e.key)] = e]
    ELSE Append(m, e)

\* Map.prototype.delete
MemDelete(m, key) == SelectSeq(m, LAMBDA e : e.key # key)

isValidEntry(entry, t) == t - entry.timestamp < entry.ttl

\* set evicting the entry inserted last
CacheSet_EvictNewest(m, ls, t, endpoint, data, params, ttl, lsThrows) ==
    LET key == Key(endpoint, params)
        m1 == IF Len(m) >= MAX_MEMORY_ITEMS /\ Len(m) > 0
              THEN SubSeq(m, 1, Len(m) - 1) ELSE m
        m2 == MemSet(m1, MemEntry(key, data, t, ttl))
        ls2 == IF ~lsThrows /\ JsonLength(data) < LS_MAX_LEN
               THEN LsSet(ls, key, EntryItem(JsonRoundTrip(data), t, ttl))
               ELSE ls
    IN [mem |-> m2, ls |-> ls2, thrown |-> FALSE]

\* APICache.set; lsThrows: JSON.stringify / localStorage.setItem throws.
\* Yields the two layers after the call and whether it threw: the catch of
\* each operation only logs.
CacheSet(m, ls, t, endpoint, data, params, ttl, lsThrows) ==
    LET key == Key(endpoint, params)
        m1 == IF Len(m) >= MAX_MEMORY_ITEMS /\ Len(m) > 0 THEN Tail(m) ELSE m
        m2 == MemSet(m1, MemEntry(key, data, t, ttl))
        ls2 == IF ~lsThrows /\ JsonLength(data) < LS_MAX_LEN
               THEN LsSet(ls, key, EntryItem(JsonRoundTrip(data), t, ttl))
               ELSE ls
    IN [mem |-> m2, ls |-> ls2, thrown |-> FALSE]

\* get without the localStorage fallback: a miss in the memory layer is a miss
CacheGet_MemoryOnly(m, ls, t, endpoint, params, lsThrows) ==
    LET key == Key(endpoint, params)
    IN IF MemHas(m, key) /\ isValidEntry(m[MemIndex(m, key)], t)
       THEN [result |-> m[MemIndex(m, key)].data, mem |-> m, ls |-> ls]
       ELSE [result |-> Null, mem |-> m, ls |-> ls]

\* get without the try/catch around its localStorage calls
CacheGet_Uncaught(m, ls, t, endpoint, params, lsThrows) ==
    LET key == Key(endpoint, params)
    IN IF MemHas(m, key) /\ isValidEntry(m[MemIndex(m, key)], t)
       THEN [result |-> m[MemIndex(m, key)].data, mem |-> m, ls |-> ls,
             thrown |-> FALSE]
       ELSE [result |-> Null, mem |-> m, ls |-> ls, thrown |-> lsThrows]

\* get promoting a localStorage entry as if it had been set just now
CacheGet_FreshTimestamp(m, ls, t, endpoint, params, lsThrows) ==
    LET key == Key(endpoint, params)
        miss == [result |-> Null, mem |-> m, ls |-> ls, thrown |-> FALSE]
        removed == [result |-> Null, mem |-> m, ls |-> LsRemove(ls, key),
                    thrown |-> FALSE]
    IN IF MemHas(m, key) /\ isValidEntry(m[MemIndex(m, key)], t)
       THEN [result |-> m[MemIndex(m, key)].data, mem |-> m, ls |-> ls,
             thrown |-> FALSE]
       ELSE IF lsThrows THEN miss
       ELSE LET item == ls[key]
            IN IF item.kind = "none" THEN miss
               ELSE IF item.kind = "raw" THEN miss
               ELSE IF item.kind = "json" THEN removed
               ELSE IF isValidEntry(item, t)
               THEN [result |-> item.data,
                     mem |-> MemSet(m, MemEntry(key, item.data, t, item.ttl)),
                     ls |-> ls, thrown |-> FALSE]
               ELSE removed

\* APICache.get; lsThrows: the localStorage calls throw.  Yields the result,
\* the two layers after the call and whether it threw.
CacheGet(m, ls, t, endpoint, params, lsThrows) ==
    LET key == Key(endpoint, params)
        miss == [result |-> Null, mem |-> m, ls |-> ls, thrown |-> FALSE]
        removed == [result |-> Null, mem |-> m, ls |-> LsRemove(ls, key),
                    thrown |-> FALSE]
    IN IF MemHas(m, key) /\ isValidEntry(m[MemIndex(m, key)], t)
       THEN [result |-> m[MemIndex(m, key)].data, mem |-> m, ls |-> ls,
             thrown |-> FALSE]
       ELSE IF lsThrows THEN miss
       ELSE LET item == ls[key]
            IN IF item.kind = "none" THEN miss
               ELSE IF item.kind = "raw" THEN miss  \* JSON.parse throws
               \* NaN < undefined is false
               ELSE IF item.kind = "json" THEN removed
               ELSE IF isValidEntry(item, t)
               THEN [result |-> item.data,
                     mem |-> MemSet(m, MemEntry(key, item.data,
                                                item.timestamp, item.ttl)),
                     ls |-> ls, thrown |-> FALSE]
               ELSE removed

\* invalidate emptying the memory layer
CacheInvalidate_WholeMemory(m, ls, endpoint, params, lsThrows) ==
    LET key == Key(endpoint, params)
    IN [mem |-> <<>>,
        ls |-> IF lsThrows THEN ls ELSE LsRemove(ls, key)]

\* APICache.invalidate
CacheInvalidate(m, ls, endpoint, params, lsThrows) ==
    LET key == Key(endpoint, params)
    IN [mem |-> MemDelete(m, key),
        ls |-> IF lsThrows THEN ls ELSE LsRemove(ls, key),
        thrown |-> FALSE]

\* invalidatePattern matching the pattern at the start of the key only
CacheInvalidatePattern_Prefix(m, ls, pattern, lsThrows) ==
    [mem |-> SelectSeq(m, LAMBDA e : ~StartsWith(e.key, pattern)),
     ls |-> IF lsThrows THEN ls
            ELSE [k \in DOMAIN ls |->
                    IF ls[k].kind # "none" /\ StartsWith(k, pattern)
                    THEN NoItem ELSE ls[k]]]

\* APICache.invalidatePattern
CacheInvalidatePattern(m, ls, pattern, lsThrows) ==
    [mem |-> SelectSeq(m, LAMBDA e : ~Includes(e.key, pattern)),
     ls |-> IF lsThrows THEN ls
            ELSE [k \in DOMAIN ls |->
                    IF ls[k].kind # "none" /\ Includes(k, pattern)
                    THEN NoItem ELSE ls[k]],
     thrown |-> FALSE]

\* clear removing every item of localStorage
CacheClear_EveryItem(m, ls, lsThrows) ==
    [mem |-> <<>>,
     ls |-> IF lsThrows THEN ls ELSE [k \in DOMAIN ls |-> NoItem]]

\* APICache.clear
CacheClear(m, ls, lsThrows) ==
    [mem |-> <<>>,
     ls |-> IF lsThrows THEN ls
            ELSE [k \in DOMAIN ls |->
                    IF ls[k].kind # "none" /\ StartsWith(k, ApiPrefix)
                    THEN NoItem ELSE ls[k]],
     thrown |-> FALSE]

----------------------------------------------------------------------------
(* Calls of the cache store *)

\* a ttl argument; NoTtl stands for an omitted argument (undefined)
NoTtl == 0
TtlArgs == 0..MaxTtl
TtlOf(arg) == IF arg = NoTtl THEN DEFAULT_TTL ELSE arg

\* the data callers store directly
SetValues == {OkA, OkBig, OkUndef}
\* what a wrapped operation may resolve to
WcResults == {OkA, OkBig, Failed, NoMarker, Null}
\* the second and third argument of withCache
WcEndpoint == EndpointU
WcTtl == MaxTtl
\* patterns callers invalidate by: "api_cache_", "cache_", "L3V" (the
\* base64 digits every "/u{..." key starts with), "img"
Patterns == {ApiPrefix, <<99, 97, 99, 104, 101, 95>>, <<76, 51, 86>>,
             <<105, 109, 103>>}

NoSet == [done |-> FALSE, value |-> Null, ttl |-> 0, time |-> 0]
NoCall == [done |-> FALSE, result |-> Null, time |-> 0, stored |-> FALSE,
           intact |-> FALSE]
Op(op, value, immediate, invoked, lsThrows) ==
    [op |-> op, value |-> value, immediate |-> immediate,
     invoked |-> invoked, lsThrows |-> lsThrows]
OtherOp == Op("other", Null, FALSE, FALSE, FALSE)
\* a set; full: the memory layer was at capacity when it was called
SetOp(lsThrows, full) ==
    [op |-> "set", value |-> Null, immediate |-> FALSE, invoked |-> FALSE,
     lsThrows |-> lsThrows, full |-> full]
\* an invalidate; held: both layers held the key before it
InvalidateOp(lsThrows, held) ==
    [op |-> "invalidate", lsThrows |-> lsThrows, held |-> held]
\* a clear; held: both layers held a cache key before it
ClearOp(lsThrows, held) ==
    [op |-> "clear", lsThrows |-> lsThrows, held |-> held]
\* an invalidatePattern; matched: both layers held a key with the pattern
PatternOp(pattern, lsThrows, matched) ==
    [op |-> "invalidatePattern", pattern |-> pattern, lsThrows |-> lsThrows,
     matched |-> matched]

\* the entry a wrapped call stored is still the one a layer holds for its key
Holds(m, ls, a, c) ==
    LET key == Key(WcEndpoint, ArgsParam(a))
    IN \/ /\ MemHas(m, key)
          /\ m[MemIndex(m, key)] = MemEntry(key, c.result, c.time, TtlOf(WcTtl))
       \/ ls[key] = EntryItem(JsonRoundTrip(c.result), c.time, TtlOf(WcTtl))

\* history of the wrapped calls after a cache call that left the layers m, ls;
\* `written` is the key a set wrote, <<>> if none
TrackCalls(log, m, ls, written) ==
    [a \in WcArgs |->
        [log[a] EXCEPT !.intact =
            /\ log[a].intact
            /\ written # Key(WcEndpoint, ArgsParam(a))
            /\ Holds(m, ls, a, log[a])]]

CacheInit ==
    /\ memoryCache = <<>>
    /\ localStorage = [k \in LSKeys |->
                         IF StartsWith(k, ApiPrefix) THEN NoItem ELSE RawItem]
    /\ now = 0
    /\ lastOp = OtherOp
    /\ setLog = NoSet
    /\ wcPending = [a \in WcArgs |-> 0]
    /\ wcStored = {}
    /\ wcLog = [a \in WcArgs |-> NoCall]

set(q, data, ttlArg, lsThrows) ==
    LET r == CacheSet(memoryCache, localStorage, now, q.endpoint, data,
                      q.params, TtlOf(ttlArg), lsThrows)
    IN /\ memoryCache' = r.mem
       /\ localStorage' = r.ls
       /\ lastOp' = IF q = watched
                    THEN SetOp(lsThrows, Len(memoryCache) >= MAX_MEMORY_ITEMS)
                    ELSE OtherOp
       /\ setLog' = IF q = watched
                    THEN [done |-> TRUE, value |-> data, ttl |-> TtlOf(ttlArg),
                          time |-> now]
                    ELSE setLog
       /\ wcLog' = TrackCalls(wcLog, r.mem, r.ls, KeyOf(q))
       /\ UNCHANGED <<now, watched, wcPending, wcStored>>
       /\ UNCHANGED outsideCache

get(q, lsThrows) ==
    LET r == CacheGet(memoryCache, localStorage, now, q.endpoint, q.params,
                      lsThrows)
    IN /\ memoryCache' = r.mem
       /\ localStorage' = r.ls
       /\ lastOp' = IF q = watched
                    THEN Op("get", r.result, lastOp.op = "set", FALSE, lsThrows)
                    ELSE OtherOp
       /\ wcLog' = TrackCalls(wcLog, r.mem, r.ls, <<>>)
       /\ UNCHANGED <<now, watched, setLog, wcPending, wcStored>>
       /\ UNCHANGED outsideCache

invalidate(q, lsThrows) ==
    LET r == CacheInvalidate(memoryCache, localStorage, q.endpoint, q.params,
                             lsThrows)
    IN /\ memoryCache' = r.mem
       /\ localStorage' = r.ls
       /\ lastOp' = IF q = watched
                    THEN InvalidateOp(lsThrows,
                             /\ MemHas(memoryCache, KeyOf(q))
                             /\ localStorage[KeyOf(q)].kind # "none")
                    ELSE OtherOp
       /\ wcLog' = TrackCalls(wcLog, r.mem, r.ls, <<>>)
       /\ UNCHANGED <<now, watched, setLog, wcPending, wcStored>>
       /\ UNCHANGED outsideCache

invalidatePattern(pattern, lsThrows) ==
    LET r == CacheInvalidatePattern(memoryCache, localStorage, pattern, lsThrows)
    IN /\ memoryCache' = r.mem
       /\ localStorage' = r.ls
       /\ lastOp' = IF watched # NoPair
                    THEN PatternOp(pattern, lsThrows,
                             \E p \in Pairs :
                                 /\ Includes(KeyOf(p), pattern)
                                 /\ MemHas(memoryCache, KeyOf(p))
                                 /\ localStorage[KeyOf(p)].kind # "none")
                    ELSE OtherOp
       /\ wcLog' = TrackCalls(wcLog, r.mem, r.ls, <<>>)
       /\ UNCHANGED <<now, watched, setLog, wcPending, wcStored>>
       /\ UNCHANGED outsideCache

clear(lsThrows) ==
    LET r == CacheClear(memoryCache, localStorage, lsThrows)
    IN /\ memoryCache' = r.mem
       /\ localStorage' = r.ls
       /\ lastOp' = IF watched # NoPair
                    THEN ClearOp(lsThrows,
                             \E p \in Pairs :
                                 /\ MemHas(memoryCache, KeyOf(p))
                                 /\ localStorage[KeyOf(p)].kind # "none")
                    ELSE OtherOp
       /\ wcLog' = TrackCalls(wcLog, r.mem, r.ls, <<>>)
       /\ UNCHANGED <<now, watched, setLog, wcPending, wcStored>>
       /\ UNCHANGED outsideCache

\* a page reload: `new APICache()` runs again, localStorage persists; the
\* wrapped calls in flight die with the page
Reload ==
    /\ memoryCache' = <<>>
    /\ lastOp' = OtherOp
    /\ wcPending' = [a \in WcArgs |-> 0]
    /\ wcLog' = TrackCalls(wcLog, <<>>, localStorage, <<>>)
    /\ UNCHANGED <<localStorage, now, watched, setLog, wcStored>>
    /\ UNCHANGED outsideCache

\* the clock advances
Tick ==
    /\ now < MaxTime
    /\ now' = now + 1
    /\ lastOp' = OtherOp
    /\ UNCHANGED <<memoryCache, localStorage, watched, setLog, wcPending,
                   wcStored, wcLog>>
    /\ UNCHANGED outsideCache

----------------------------------------------------------------------------
(* withCache(fn, WcEndpoint, WcTtl) *)

\* the success check without its last conjunct: any result that carries a
\* success property counts
IsSuccessResult_AnyMarker(result) ==
    /\ Truthy(result)
    /\ result.kind = "object"
    /\ result.success # "missing"

\* result && typeof result === 'object' && 'success' in result && result.success
IsSuccessResult(result) ==
    /\ Truthy(result)
    /\ result.kind = "object"
    /\ result.success # "missing"
    /\ result.success = "true"

\* the wrapper up to `await fn(...args)`: a hit returns the cached value, a
\* miss invokes the underlying operation
wcCall(a, lsThrows) ==
    LET params == ArgsParam(a)
        r == CacheGet(memoryCache, localStorage, now, WcEndpoint, params,
                      lsThrows)
        hit == Truthy(r.result)
    IN /\ wcPending[a] < MaxPending
       /\ memoryCache' = r.mem
       /\ localStorage' = r.ls
       /\ lastOp' = Op("wcCall", r.result, FALSE, ~hit, lsThrows)
       /\ wcPending' = IF hit THEN wcPending
                       ELSE [wcPending EXCEPT ![a] = @ + 1]
       /\ wcLog' = TrackCalls(wcLog, r.mem, r.ls, <<>>)
       /\ UNCHANGED <<now, watched, setLog, wcStored>>
       /\ UNCHANGED outsideCache

\* the wrapper from the resolution of fn to its return
wcReturn(a, result, lsThrows) ==
    LET params == ArgsParam(a)
        store == IsSuccessResult(result)
        r == IF store
             THEN CacheSet(memoryCache, localStorage, now, WcEndpoint, result,
                           params, TtlOf(WcTtl), lsThrows)
             ELSE [mem |-> memoryCache, ls |-> localStorage]
    IN /\ wcPending[a] > 0
       /\ wcPending' = [wcPending EXCEPT ![a] = @ - 1]
       /\ memoryCache' = r.mem
       /\ localStorage' = r.ls
       /\ wcStored' = IF store THEN wcStored \cup {result} ELSE wcStored
       /\ lastOp' = Op("wcReturn", result, FALSE, TRUE, lsThrows)
       /\ wcLog' = [TrackCalls(wcLog, r.mem, r.ls, <<>>) EXCEPT ![a] =
                        [done |-> TRUE, result |-> result, time |-> now,
                         stored |-> store, intact |-> store]]
       /\ UNCHANGED <<now, watched, setLog>>
       /\ UNCHANGED outsideCache

----------------------------------------------------------------------------
(* SpecCache: the cache store under arbitrary call sequences.  One pair is  *)
(* watched (any of them); the other pairs are set with one value.           *)

\* one pair without params, one with
WatchedPairs == {Pair(EndpointP, Undefined), Pair(EndpointU, ArgsParam(1))}

CacheStoreInit == CacheInit /\ watched \in WatchedPairs

CacheStoreNext ==
    \/ \E data \in SetValues, ttlArg \in TtlArgs, lsThrows \in BOOLEAN :
          set(watched, data, ttlArg, lsThrows)
    \/ \E q \in Pairs \ {watched} : set(q, OkA, NoTtl, FALSE)
    \/ \E q \in Pairs, lsThrows \in BOOLEAN : get(q, lsThrows)
    \/ \E q \in Pairs, lsThrows \in BOOLEAN : invalidate(q, lsThrows)
    \/ \E pattern \in Patterns, lsThrows \in BOOLEAN :
          invalidatePattern(pattern, lsThrows)
    \/ \E lsThrows \in BOOLEAN : clear(lsThrows)
    \/ Reload
    \/ Tick


(* SpecWrap: one wrapped operation, called with one argument list, next to  *)
(* direct calls of the store.                                               *)

WrapInit == CacheInit /\ watched = NoPair

WrapNext ==
    \/ \E a \in WcArgs, lsThrows \in BOOLEAN : wcCall(a, lsThrows)
    \/ \E a \in WcArgs, result \in WcResults, lsThrows \in BOOLEAN :
          wcReturn(a, result, lsThrows)
    \/ \E q \in Pairs : set(q, OkUndef, NoTtl, FALSE)
    \/ \E q \in Pairs : invalidate(q, FALSE)
    \/ invalidatePattern(ApiPrefix, FALSE)
    \/ clear(FALSE)
    \/ Reload
    \/ Tick


----------------------------------------------------------------------------
(* The backend: server.ts *)

\* a row of the users table; fullName is a string of ASCII codes
User(id, fullName, email) == [id |-> id, fullName |-> fullName, email |-> email]
\* the request body of POST and PUT (UserFormData); large: its JSON is over
\* the size limit of express.json()
Form(fullName, email, large) ==
    [fullName |-> fullName, email |-> email, large |-> large]

\* JSON bodies
JsonUsers(items) == [kind |-> "array", items |-> items]
JsonUser(u) == [kind |-> "user", user |-> u]
JsonError(text) == [kind |-> "error", error |-> text]
JsonMessage(text) == [kind |-> "message", message |-> text]
\* a body that is no JSON: the HTML page of Express's default handler, or a
\* body cut short
NotJson == [kind |-> "html"]

Response(status, body) == [status |-> status, body |-> body]

RECURSIVE Reverse(_)
Reverse(q) == IF q = <<>> THEN <<>> ELSE Append(Reverse(Tail(q)), Head(q))

HasId(table, id) == \E i \in 1..Len(table) : table[i].id = id
HasEmail(table, email) == \E i \in 1..Len(table) : table[i].email = email
HasEmailElsewhere(table, email, id) ==
    \E i \in 1..Len(table) : table[i].email = email /\ table[i].id # id

\* an id that is no single path segment ("a/b"): no route of server.ts
\* matches /api/users/a/b
BadId == 0
RouteMatches(id) == id # BadId
\* Express answers an unmatched route itself, with an HTML page
NoRoute(table) == [table |-> table, response |-> Response(404, NotJson)]
\* express.json() refuses a request body over its size limit (a form with a
\* long avatar data URL) before any route runs; Express answers with an HTML
\* page as well
PayloadTooLarge(table) == [table |-> table, response |-> Response(413, NotJson)]

\* Each handler yields the table after the request and the response.
\* dbFails: the Prisma call fails for another reason than P2002 / P2025.

\* GET /api/users
GetUsers(table, dbFails) ==
    [table |-> table,
     response |-> IF dbFails
                  THEN Response(500, JsonError("Failed to fetch users"))
                  ELSE Response(200, JsonUsers(Reverse(table)))]

\* GET /api/users/:id
GetUser(table, id, dbFails) ==
    [table |-> table,
     response |->
        IF ~RouteMatches(id) THEN Response(404, NotJson)
        ELSE IF dbFails THEN Response(500, JsonError("Failed to fetch user"))
        ELSE IF ~HasId(table, id)
        THEN Response(404, JsonError("User not found"))
        ELSE Response(200, JsonUser(
                 table[CHOOSE i \in 1..Len(table) : table[i].id = id]))]

\* POST without the unique index on email
PostUser_NoUniqueIndex(table, form, newId, dbFails) ==
    IF form.large THEN PayloadTooLarge(table)
    ELSE IF form.fullName = <<>> \/ form.email = ""
    THEN [table |-> table,
          response |-> Response(400, JsonError("Full name and email are required"))]
    ELSE IF dbFails
    THEN [table |-> table,
          response |-> Response(500, JsonError("Failed to create user"))]
    ELSE LET u == User(newId, form.fullName, form.email)
         IN [table |-> Append(table, u), response |-> Response(201, JsonUser(u))]

\* POST /api/users; newId is the id the database generates
PostUser(table, form, newId, dbFails) ==
    IF form.large THEN PayloadTooLarge(table)
    ELSE IF form.fullName = <<>> \/ form.email = ""
    THEN [table |-> table,
          response |-> Response(400, JsonError("Full name and email are required"))]
    ELSE IF dbFails
    THEN [table |-> table,
          response |-> Response(500, JsonError("Failed to create user"))]
    ELSE IF HasEmail(table, form.email)
    THEN [table |-> table,
          response |-> Response(400, JsonError("Email already exists"))]
    ELSE LET u == User(newId, form.fullName, form.email)
         IN [table |-> Append(table, u), response |-> Response(201, JsonUser(u))]

\* PUT that creates the row when the id does not exist
PutUser_Upsert(table, id, form, dbFails) ==
    IF form.large THEN PayloadTooLarge(table)
    ELSE IF ~RouteMatches(id) THEN NoRoute(table)
    ELSE IF form.fullName = <<>> \/ form.email = ""
    THEN [table |-> table,
          response |-> Response(400, JsonError("Full name and email are required"))]
    ELSE IF dbFails
    THEN [table |-> table,
          response |-> Response(500, JsonError("Failed to update user"))]
    ELSE IF HasEmailElsewhere(table, form.email, id)
    THEN [table |-> table,
          response |-> Response(400, JsonError("Email already exists"))]
    ELSE LET u == User(id, form.fullName, form.email)
         IN [table |-> IF HasId(table, id)
                       THEN [j \in 1..Len(table) |->
                               IF table[j].id = id THEN u ELSE table[j]]
                       ELSE Append(table, u),
             response |-> Response(200, JsonUser(u))]

\* PUT /api/users/:id
PutUser(table, id, form, dbFails) ==
    IF form.large THEN PayloadTooLarge(table)
    ELSE IF ~RouteMatches(id) THEN NoRoute(table)
    ELSE IF form.fullName = <<>> \/ form.email = ""
    THEN [table |-> table,
          response |-> Response(400, JsonError("Full name and email are required"))]
    ELSE IF dbFails
    THEN [table |-> table,
          response |-> Response(500, JsonError("Failed to update user"))]
    ELSE IF ~HasId(table, id)
    THEN [table |-> table, response |-> Response(404, JsonError("User not found"))]
    ELSE IF HasEmailElsewhere(table, form.email, id)
    THEN [table |-> table,
          response |-> Response(400, JsonError("Email already exists"))]
    ELSE LET u == User(id, form.fullName, form.email)
             i == CHOOSE j \in 1..Len(table) : table[j].id = id
         IN [table |-> [table EXCEPT ![i] = u],
             response |-> Response(200, JsonUser(u))]

\* DELETE /api/users/:id
DeleteUser(table, id, dbFails) ==
    IF ~RouteMatches(id) THEN NoRoute(table)
    ELSE IF dbFails
    THEN [table |-> table,
          response |-> Response(500, JsonError("Failed to delete user"))]
    ELSE IF ~HasId(table, id)
    THEN [table |-> table, response |-> Response(404, JsonError("User not found"))]
    ELSE [table |-> SelectSeq(table, LAMBDA u : u.id # id),
          response |-> Response(200, JsonMessage("User deleted successfully"))]

----------------------------------------------------------------------------
(* The Profile API client: UserProfileAPI *)

\* what `await fetch(url)` gives: a rejection (network failure) or a response
Rejected == [rejected |-> TRUE, status |-> 0, body |-> NotJson]
Delivered(r) == [rejected |-> FALSE, status |-> r.status, body |-> r.body]
\* the response with its body cut short in transit
Truncated(r) == [rejected |-> FALSE, status |-> r.status, body |-> NotJson]

\* the messages of an ApiResponse: kind "server" is the server's error text,
\* "http" is `HTTP error! status: ${status}`, "exception" is error.message
Msg(kind, text, status) == [kind |-> kind, text |-> text, status |-> status]
OkMessage == Msg("ok", "Operation completed successfully", 0)

\* {} as T
EmptyObject == [kind |-> "emptyObject"]
Bool(b) == [kind |-> "boolean", value |-> b]

ApiResponse(data, success, message) ==
    [threw |-> FALSE, data |-> data, success |-> success, message |-> message]
\* the call rejects instead of returning
Throws(text) ==
    [threw |-> TRUE, data |-> Undefined, success |-> FALSE,
     message |-> Msg("exception", text, 0)]

\* the catch block of fetchWithErrorHandling
CatchBlock(text) == ApiResponse(EmptyObject, FALSE, Msg("exception", text, 0))

\* response.ok
IsOk(status) == status >= 200 /\ status <= 299

\* fetchWithErrorHandling with response.json() outside the try block
fetchWithErrorHandling_JsonUncaught(outcome) ==
    IF outcome.rejected THEN CatchBlock("Failed to fetch")
    ELSE IF outcome.body.kind = "html" THEN Throws("Unexpected token <")
    ELSE IF ~IsOk(outcome.status)
    THEN ApiResponse(EmptyObject, FALSE,
             IF outcome.body.kind = "error" /\ outcome.body.error # ""
             THEN Msg("server", outcome.body.error, 0)
             ELSE Msg("http", "", outcome.status))
    ELSE ApiResponse(outcome.body, TRUE, OkMessage)

\* fetchWithErrorHandling, given what fetch gives
fetchWithErrorHandling(outcome) ==
    IF outcome.rejected THEN CatchBlock("Failed to fetch")
    ELSE IF outcome.body.kind = "html" THEN CatchBlock("Unexpected token <")
    ELSE IF ~IsOk(outcome.status)
    THEN ApiResponse(EmptyObject, FALSE,
             IF outcome.body.kind = "error" /\ outcome.body.error # ""
             THEN Msg("server", outcome.body.error, 0)
             ELSE Msg("http", "", outcome.status))
    ELSE ApiResponse(outcome.body, TRUE, OkMessage)

\* message.includes('404'): none of the error texts of server.ts and none of
\* the messages of the caught errors contains "404"
Includes404(message) == message.kind = "http" /\ message.status = 404

getAllUsers(outcome) == fetchWithErrorHandling(outcome)

getAllUsersUnpaginated(outcome) == fetchWithErrorHandling(outcome)

getUserById(outcome) ==
    LET response == fetchWithErrorHandling(outcome)
    IN IF response.threw THEN response
       ELSE IF ~response.success /\ Includes404(response.message)
       THEN ApiResponse(Null, FALSE, Msg("domain", "User not found", 0))
       ELSE response

createUser(outcome) == fetchWithErrorHandling(outcome)

updateUser(outcome) == fetchWithErrorHandling(outcome)

deleteUser(outcome) ==
    LET response == fetchWithErrorHandling(outcome)
    IN IF response.threw THEN response
       ELSE ApiResponse(Bool(response.success), response.success,
                        response.message)

----------------------------------------------------------------------------
(* Calls of the Profile API client against the backend (SpecApi) *)

MaxId == 3

FullNames == {<<>>, <<97>>}
Emails == {"", "a@x", "b@x"}
Forms == {Form(n, e, FALSE) : n \in FullNames, e \in Emails}
            \cup {Form(<<97>>, "a@x", TRUE)}
\* the ids of the requests: the generated ones, and one that is no path segment
Ids == {BadId} \cup 1..MaxId

\* What the network does with a request: "refused" never reaches the server,
\* "lost" reaches it but the response never arrives, "truncated" delivers the
\* status with a body cut short.
Networks == {"delivered", "refused", "lost", "truncated"}
Reaches(net) == net # "refused"
Fetch(net, response) ==
    CASE net = "delivered" -> Delivered(response)
      [] net = "truncated" -> Truncated(response)
      [] OTHER -> Rejected

NoApiCall == [op |-> "none", outcome |-> Rejected, result |-> CatchBlock("")]
ApiCall(op, outcome, result) ==
    [op |-> op, outcome |-> outcome, result |-> result]

ApiInit ==
    /\ db = <<>>
    /\ nextId = 1
    /\ apiResult = NoApiCall

CallGetAllUsers(net, dbFails) ==
    LET served == GetUsers(db, dbFails)
        outcome == Fetch(net, served.response)
    IN /\ apiResult' = ApiCall("getAllUsers", outcome, getAllUsers(outcome))
       /\ UNCHANGED <<db, nextId>>
       /\ UNCHANGED outsideApi

CallGetAllUsersUnpaginated(net, dbFails) ==
    LET served == GetUsers(db, dbFails)
        outcome == Fetch(net, served.response)
    IN /\ apiResult' = ApiCall("getAllUsersUnpaginated", outcome,
                               getAllUsersUnpaginated(outcome))
       /\ UNCHANGED <<db, nextId>>
       /\ UNCHANGED outsideApi

CallGetUserById(id, net, dbFails) ==
    LET served == GetUser(db, id, dbFails)
        outcome == Fetch(net, served.response)
    IN /\ apiResult' = ApiCall("getUserById", outcome, getUserById(outcome))
       /\ UNCHANGED <<db, nextId>>
       /\ UNCHANGED outsideApi

CallCreateUser(form, net, dbFails) ==
    LET served == PostUser(db, form, nextId, dbFails)
        outcome == Fetch(net, served.response)
    IN /\ nextId <= MaxId
       /\ apiResult' = ApiCall("createUser", outcome, createUser(outcome))
       /\ db' = IF Reaches(net) THEN served.table ELSE db
       /\ nextId' = IF Len(db') > Len(db) THEN nextId + 1 ELSE nextId
       /\ UNCHANGED outsideApi

CallUpdateUser(id, form, net, dbFails) ==
    LET served == PutUser(db, id, form, dbFails)
        outcome == Fetch(net, served.response)
    IN /\ apiResult' = ApiCall("updateUser", outcome, updateUser(outcome))
       /\ db' = IF Reaches(net) THEN served.table ELSE db
       /\ UNCHANGED nextId
       /\ UNCHANGED outsideApi

CallDeleteUser(id, net, dbFails) ==
    LET served == DeleteUser(db, id, dbFails)
        outcome == Fetch(net, served.response)
    IN /\ apiResult' = ApiCall("deleteUser", outcome, deleteUser(outcome))
       /\ db' = IF Reaches(net) THEN served.table ELSE db
       /\ UNCHANGED nextId
       /\ UNCHANGED outsideApi

ApiNext ==
    \/ \E net \in Networks, dbFails \in BOOLEAN :
          CallGetAllUsers(net, dbFails)
    \/ \E net \in Networks, dbFails \in BOOLEAN :
          CallGetAllUsersUnpaginated(net, dbFails)
    \/ \E id \in Ids, net \in Networks, dbFails \in BOOLEAN :
          CallGetUserById(id, net, dbFails)
    \/ \E form \in Forms, net \in Networks, dbFails \in BOOLEAN :
          CallCreateUser(form, net, dbFails)
    \/ \E id \in Ids, form \in Forms, net \in Networks, dbFails \in BOOLEAN :
          CallUpdateUser(id, form, net, dbFails)
    \/ \E id \in Ids, net \in Networks, dbFails \in BOOLEAN :
          CallDeleteUser(id, net, dbFails)


----------------------------------------------------------------------------
(* The list endpoint the client is written against *)

\* page size; App passes 20, the model keeps the arithmetic and scales the
\* number
PageSize == 2

Max(a, b) == IF a >= b THEN a ELSE b
Min(a, b) == IF a <= b THEN a ELSE b
CeilDiv(a, b) == (a + b - 1) \div b

IsSpace(c) == c \in {9, 10, 13, 32}
RECURSIVE TrimStart(_)
TrimStart(s) ==
    IF s # <<>> /\ IsSpace(Head(s)) THEN TrimStart(Tail(s)) ELSE s
\* String.prototype.trim
Trim(s) == Reverse(TrimStart(Reverse(TrimStart(s))))

JsonPage(data, info) == [kind |-> "page", data |-> data, pagination |-> info]

PaginationInfo(page, total, limit) ==
    LET totalPages == Max(1, CeilDiv(total, limit))
    IN [currentPage |-> page, totalPages |-> totalPages, totalUsers |-> total,
        limit |-> limit, hasNextPage |-> page < totalPages,
        hasPrevPage |-> page > 1]

Matches(u, search) == search = <<>> \/ Includes(u.fullName, search)

\* GET /api/users?page&limit&search answering {data, pagination}: the newest
\* first, those matching the search, the requested page of them
GetUsersPage(table, page, limit, search, dbFails) ==
    LET matching == SelectSeq(Reverse(table), LAMBDA u : Matches(u, search))
        total == Len(matching)
        first == (page - 1) * limit + 1
        last == Min(page * limit, total)
    IN [table |-> table,
        response |->
            IF dbFails THEN Response(500, JsonError("Failed to fetch users"))
            ELSE Response(200, JsonPage(SubSeq(matching, first, last),
                                        PaginationInfo(page, total, limit)))]

----------------------------------------------------------------------------
(* The pagination/search coordinator: App *)

\* list fetches dispatched in one run, and requests in flight at once
MaxFetches == 4
MaxInFlight == 2
\* at most this many changes of one burst are counted
MaxChanges == 2
\* deletes confirmed in one run that are in flight or have succeeded
MaxDeletes == 1
\* profiles the App creates in one behaviour
MaxCreates == 1
\* submissions of the form in flight at once
MaxSubmits == 1
\* notifications on display at once
MaxNotifications == 1

\* "", "a", "ab"
SearchTexts == {<<>>, <<97>>, <<97, 98>>}

\* the table when the page is opened: one profile more than a page holds
InitialNames == <<(<<97>>), (<<97, 98>>), (<<98>>)>>
InitialEmails == <<"a@x", "b@x", "c@x", "d@x", "e@x", "f@x">>
InitialUsers ==
    [i \in 1..(PageSize + 1) |->
        User(i, InitialNames[((i - 1) % 3) + 1], InitialEmails[((i - 1) % 6) + 1])]

NoUser == User(0, <<>>, "")

\* useState<PaginationInfo>({...})
InitialPagination ==
    [currentPage |-> 1, totalPages |-> 1, totalUsers |-> 0, limit |-> PageSize,
     hasNextPage |-> FALSE, hasPrevPage |-> FALSE]

\* A request in flight.  A list request carries the arguments of loadUsers; a
\* delete request carries the id, and page and search are the currentPage
\* and debouncedSearchQuery its handler closed over.
ListRequest(seq, page, search) ==
    [kind |-> "list", seq |-> seq, page |-> page, search |-> search, id |-> 0,
     stage |-> "sent", outcome |-> Rejected]
DeleteRequest(id, page, search) ==
    [kind |-> "delete", seq |-> 0, page |-> page, search |-> search, id |-> id,
     stage |-> "sent", outcome |-> Rejected]

\* the requests of handleCreateUser and handleUpdateUser: page and search are
\* the currentPage and debouncedSearchQuery of the render the handler is of
CreateRequest(form, page, search) ==
    [kind |-> "create", seq |-> 0, page |-> page, search |-> search, id |-> 0,
     form |-> form, stage |-> "sent", outcome |-> Rejected]
UpdateRequest(id, form, page, search) ==
    [kind |-> "update", seq |-> 0, page |-> page, search |-> search, id |-> id,
     form |-> form, stage |-> "sent", outcome |-> Rejected]

Remove(q, i) == SubSeq(q, 1, i - 1) \o SubSeq(q, i + 1, Len(q))

FetchPending(seq, search) ==
    [seq |-> seq, search |-> search, settled |-> FALSE, success |-> FALSE,
     data |-> <<>>, pagination |-> InitialPagination]
FetchSettled(seq, search, success, data, info) ==
    [seq |-> seq, search |-> search, settled |-> TRUE, success |-> success,
     data |-> data, pagination |-> info]

NoBurst ==
    [changes |-> 0, start |-> <<>>, final |-> <<>>, fetches |-> 0,
     text |-> <<>>, done |-> TRUE]

\* response.data.data and response.data.pagination
DataOf(body) == IF body.kind = "page" THEN body.data ELSE Undefined
PaginationOf(body) == IF body.kind = "page" THEN body.pagination ELSE Undefined

DeletesInFlight ==
    Cardinality({i \in 1..Len(requests) : requests[i].kind = "delete"})

\* App is rendered.  Its render reads pagination.totalUsers; when that
\* throws, React unmounts the tree (there is no error boundary): the inputs
\* are gone, the timer of useDebounce is cleared, later state updates are
\* dropped.
Mounted == pagination # Undefined

\* a NotificationType without its id and duration; message is a Msg
Notification(type, message) == [type |-> type, message |-> message]
\* a message text of App itself
AppMsg(text) == Msg("app", text, 0)
CanNotify == Len(notifications) < MaxNotifications
\* setNotifications(prev => [...prev, notification])
addNotification(type, message) ==
    notifications' = Append(notifications, Notification(type, message))

\* the close button or the timer of a notification:
\* setNotifications(prev => prev.filter(n => n.id !== id))
removeNotification(i) ==
    /\ i \in 1..Len(notifications)
    /\ notifications' = SubSeq(notifications, 1, i - 1)
                           \o SubSeq(notifications, i + 1, Len(notifications))
    /\ UNCHANGED <<appVars, formVars, isFormLoading>>
    /\ UNCHANGED outsideHandlers

CanLoad(reqs) == latestFetch.seq < MaxFetches /\ Len(reqs) < MaxInFlight

\* loadUsers up to its await; reqs are the requests in flight before it
loadUsers(reqs, page, search) ==
    /\ isLoading' = TRUE
    /\ requests' = Append(reqs, ListRequest(latestFetch.seq + 1, page, search))
    /\ latestFetch' = FetchPending(latestFetch.seq + 1, search)

\* useEffect(() => loadUsers(currentPage, debouncedSearchQuery),
\*           [currentPage, debouncedSearchQuery, loadUsers])
\* after a render in which the two are page and search
useEffect(page, search) ==
    IF page # currentPage \/ search # debouncedSearchQuery
    THEN CanLoad(requests) /\ loadUsers(requests, page, search)
    ELSE UNCHANGED <<isLoading, requests, latestFetch>>

\* the state once the component is mounted and its effect has run
AppInit ==
    /\ users = <<>>
    /\ pagination = InitialPagination
    /\ isLoading = TRUE
    /\ searchQuery = <<>>
    /\ debouncedSearchQuery = <<>>
    /\ timerArmed = FALSE
    /\ currentPage = 1
    /\ showDeleteModal = FALSE
    /\ userToDelete = NoUser
    /\ requests = <<ListRequest(1, 1, <<>>)>>
    /\ latestFetch = FetchPending(1, <<>>)
    /\ failedFetch = FALSE
    /\ deleted = {}
    /\ burst = NoBurst
    /\ notifications = <<>>
    /\ isFormLoading = FALSE

\* no App is running
AppIdle ==
    /\ users = <<>>
    /\ pagination = InitialPagination
    /\ isLoading = TRUE
    /\ searchQuery = <<>>
    /\ debouncedSearchQuery = <<>>
    /\ timerArmed = FALSE
    /\ currentPage = 1
    /\ showDeleteModal = FALSE
    /\ userToDelete = NoUser
    /\ requests = <<>>
    /\ latestFetch = FetchPending(0, <<>>)
    /\ failedFetch = FALSE
    /\ deleted = {}
    /\ burst = NoBurst
    /\ notifications = <<>>
    /\ isFormLoading = FALSE

\* the search input changes to query: handleSearch, the re-arming of the
\* timer of useDebounce, and the effect of App
handleSearch(query) ==
    LET reset == currentPage # 1
    IN /\ Mounted
       /\ ~showDeleteModal
       /\ query # searchQuery
       /\ searchQuery' = query
       /\ currentPage' = 1
       /\ timerArmed' = TRUE
       /\ useEffect(1, debouncedSearchQuery)
       /\ burst' =
            IF burst.done
            THEN [changes |-> 1, start |-> debouncedSearchQuery,
                  final |-> query, fetches |-> IF reset THEN 1 ELSE 0,
                  text |-> debouncedSearchQuery, done |-> FALSE]
            ELSE [burst EXCEPT
                    !.changes = Min(MaxChanges, @ + 1),
                    !.final = query,
                    !.fetches = IF reset THEN @ + 1 ELSE @,
                    !.text = IF reset THEN debouncedSearchQuery ELSE @]
       /\ UNCHANGED <<users, pagination, debouncedSearchQuery, showDeleteModal,
                      userToDelete, failedFetch, deleted>>
       /\ UNCHANGED outsideApp

\* the timeout of useDebounce fires: setDebouncedValue(value), then the
\* effect of App
DebounceFire ==
    LET changed == searchQuery # debouncedSearchQuery
    IN /\ Mounted
       /\ timerArmed
       /\ timerArmed' = FALSE
       /\ debouncedSearchQuery' = searchQuery
       /\ useEffect(currentPage, searchQuery)
       /\ burst' = [burst EXCEPT
                      !.done = TRUE,
                      !.fetches = IF changed THEN @ + 1 ELSE @,
                      !.text = IF changed THEN searchQuery ELSE @]
       /\ UNCHANGED <<users, pagination, searchQuery, currentPage,
                      showDeleteModal, userToDelete, failedFetch, deleted>>
       /\ UNCHANGED outsideApp

\* the page buttons renderPaginationControls renders for a descriptor
PagesOffered(info) ==
    LET startPage == Max(1, info.currentPage - 2)
        endPage == Min(info.totalPages, info.currentPage + 2)
    IN (startPage..endPage)
         \cup (IF startPage > 1 THEN {1} ELSE {})
         \cup (IF endPage < info.totalPages THEN {info.totalPages} ELSE {})
         \cup (IF info.hasPrevPage THEN {info.currentPage - 1} ELSE {})
         \cup (IF info.hasNextPage THEN {info.currentPage + 1} ELSE {})

\* the list is rendered with its cards
ListShown == ~isLoading /\ Len(users) > 0

\* UserProfileList renders page buttons: neither the loading nor the empty
\* state was returned, and renderPaginationControls does not return null
PaginationRendered == ListShown /\ pagination.totalPages > 1

\* a page button is clicked: handlePageChange and the effect of App
handlePageChange(page) ==
    /\ ~showDeleteModal
    /\ ListShown
    /\ pagination.totalPages > 1
    /\ page \in PagesOffered(pagination)
    /\ currentPage' = page
    /\ useEffect(page, debouncedSearchQuery)
    /\ UNCHANGED <<users, pagination, searchQuery, debouncedSearchQuery,
                   timerArmed, showDeleteModal, userToDelete, failedFetch,
                   deleted, burst>>
    /\ UNCHANGED outsideApp

\* the delete button of a card
handleDelete(i) ==
    /\ ~showDeleteModal
    /\ ListShown
    /\ userToDelete' = users[i]
    /\ showDeleteModal' = TRUE
    /\ UNCHANGED <<users, pagination, isLoading, searchQuery,
                   debouncedSearchQuery, timerArmed, currentPage, requests,
                   latestFetch, failedFetch, deleted, burst>>
    /\ UNCHANGED outsideApp

handleCancelDelete ==
    /\ showDeleteModal
    /\ showDeleteModal' = FALSE
    /\ userToDelete' = NoUser
    /\ UNCHANGED <<users, pagination, isLoading, searchQuery,
                   debouncedSearchQuery, timerArmed, currentPage, requests,
                   latestFetch, failedFetch, deleted, burst>>
    /\ UNCHANGED outsideApp

\* the confirm button: handleDeleteUser up to its await
handleDeleteUser ==
    /\ showDeleteModal
    /\ userToDelete # NoUser
    /\ Len(requests) < MaxInFlight
    /\ Cardinality(deleted) + DeletesInFlight < MaxDeletes
    /\ requests' = Append(requests, DeleteRequest(userToDelete.id, currentPage,
                                                  debouncedSearchQuery))
    /\ UNCHANGED <<users, pagination, isLoading, searchQuery,
                   debouncedSearchQuery, timerArmed, currentPage,
                   showDeleteModal, userToDelete, latestFetch, failedFetch,
                   deleted, burst>>
    /\ UNCHANGED outsideApp

\* what the network does with a request of the App
AppNetworks == {"delivered", "refused"}

\* the backend answers the list request at position i
ServeGetUsers(i, net) ==
    LET r == requests[i]
        served == GetUsersPage(db, r.page, PageSize, Trim(r.search), FALSE)
    IN /\ r.kind = "list"
       /\ r.stage = "sent"
       /\ requests' = [requests EXCEPT ![i].stage = "answered",
                                       ![i].outcome = Fetch(net, served.response)]
       /\ UNCHANGED <<users, pagination, isLoading, searchQuery,
                      debouncedSearchQuery, timerArmed, currentPage,
                      showDeleteModal, userToDelete, latestFetch, failedFetch,
                      deleted, burst>>
       /\ UNCHANGED outsideApp

\* the backend of server.ts answers the list request at position i: its
\* handler does not read the query string
ServeUsers(i, net, dbFails) ==
    LET r == requests[i]
        served == GetUsers(db, dbFails)
    IN /\ r.kind = "list"
       /\ r.stage = "sent"
       /\ requests' = [requests EXCEPT ![i].stage = "answered",
                                       ![i].outcome = Fetch(net, served.response)]
       /\ UNCHANGED <<users, pagination, isLoading, searchQuery,
                      debouncedSearchQuery, timerArmed, currentPage,
                      showDeleteModal, userToDelete, latestFetch, failedFetch,
                      deleted, burst>>
       /\ UNCHANGED outsideApp

\* the backend answers the delete request at position i
ServeDeleteUser(i, net) ==
    LET r == requests[i]
        served == DeleteUser(db, r.id, FALSE)
    IN /\ r.kind = "delete"
       /\ r.stage = "sent"
       /\ db' = IF Reaches(net) THEN served.table ELSE db
       /\ requests' = [requests EXCEPT ![i].stage = "answered",
                                       ![i].outcome = Fetch(net, served.response)]
       /\ UNCHANGED <<users, pagination, isLoading, searchQuery,
                      debouncedSearchQuery, timerArmed, currentPage,
                      showDeleteModal, userToDelete, latestFetch, failedFetch,
                      deleted, burst>>
       /\ UNCHANGED <<cacheVars, nextId, apiResult, formVars, noteVars,
                      qrVars>>

\* loadUsers emptying the list when the fetch fails
loadUsersResolved_ClearOnFailure(i) ==
    LET r == requests[i]
        response == getAllUsers(r.outcome)
        shown == IF response.success THEN DataOf(response.data) ELSE <<>>
        info == IF response.success THEN PaginationOf(response.data)
                ELSE pagination
    IN /\ r.kind = "list"
       /\ r.stage = "answered"
       /\ requests' = Remove(requests, i)
       /\ IF Mounted
          THEN /\ users' = shown
               /\ pagination' = info
               /\ isLoading' = FALSE
               /\ IF response.success THEN UNCHANGED notifications
                  ELSE /\ CanNotify
                       /\ addNotification("error",
                                          AppMsg("Failed to load users"))
          ELSE UNCHANGED <<users, pagination, isLoading, notifications>>
       /\ latestFetch' = IF r.seq = latestFetch.seq
                         THEN FetchSettled(r.seq, r.search, response.success, shown,
                                           info)
                         ELSE latestFetch
       /\ failedFetch' = (failedFetch \/ ~response.success)
       /\ UNCHANGED <<searchQuery, debouncedSearchQuery, timerArmed,
                      currentPage, showDeleteModal, userToDelete, deleted,
                      burst>>
       /\ UNCHANGED <<formVars, isFormLoading>>
       /\ UNCHANGED outsideHandlers

\* loadUsers from the resolution of its await
loadUsersResolved(i) ==
    LET r == requests[i]
        response == getAllUsers(r.outcome)
        shown == IF response.success THEN DataOf(response.data) ELSE users
        info == IF response.success THEN PaginationOf(response.data)
                ELSE pagination
    IN /\ r.kind = "list"
       /\ r.stage = "answered"
       /\ requests' = Remove(requests, i)
       /\ IF Mounted
          THEN /\ users' = shown
               /\ pagination' = info
               /\ isLoading' = FALSE
               /\ IF response.success THEN UNCHANGED notifications
                  ELSE /\ CanNotify
                       /\ addNotification("error",
                                          AppMsg("Failed to load users"))
          ELSE UNCHANGED <<users, pagination, isLoading, notifications>>
       /\ latestFetch' = IF r.seq = latestFetch.seq
                         THEN FetchSettled(r.seq, r.search, response.success, shown,
                                           info)
                         ELSE latestFetch
       /\ failedFetch' = (failedFetch \/ ~response.success)
       /\ UNCHANGED <<searchQuery, debouncedSearchQuery, timerArmed,
                      currentPage, showDeleteModal, userToDelete, deleted,
                      burst>>
       /\ UNCHANGED <<formVars, isFormLoading>>
       /\ UNCHANGED outsideHandlers

\* handleDeleteUser from the resolution of its await
handleDeleteUserResolved(i) ==
    LET r == requests[i]
        response == deleteUser(r.outcome)
    IN /\ r.kind = "delete"
       /\ r.stage = "answered"
       /\ CanNotify
       /\ IF response.success
          THEN /\ latestFetch.seq < MaxFetches
               /\ addNotification("success",
                                  AppMsg("User deleted successfully!"))
               /\ showDeleteModal' = FALSE
               /\ userToDelete' = NoUser
               /\ deleted' = deleted \cup {r.id}
               /\ loadUsers(Remove(requests, i), r.page, r.search)
          ELSE /\ addNotification("error", response.message)
               /\ requests' = Remove(requests, i)
               /\ UNCHANGED <<showDeleteModal, userToDelete, deleted,
                              isLoading, latestFetch>>
       /\ UNCHANGED <<users, pagination, searchQuery, debouncedSearchQuery,
                      timerArmed, currentPage, failedFetch, burst>>
       /\ UNCHANGED <<formVars, isFormLoading>>
       /\ UNCHANGED outsideHandlers

\* the forms the user submits: the email of the second profile, and a new one
AppForms == {Form(<<99>>, "b@x", FALSE), Form(<<99>>, "z@x", FALSE)}

SubmitsInFlight ==
    Cardinality({i \in 1..Len(requests) :
                    requests[i].kind \in {"create", "update"}})

\* the "Add user" button: setShowForm(true)
openForm ==
    /\ ~showForm
    /\ showForm' = TRUE
    /\ UNCHANGED <<editingUser, scannedUserData, showQRModal, qrModalMode,
                   qrUser>>
    /\ UNCHANGED <<appVars, noteVars>>
    /\ UNCHANGED outsideHandlers

\* handleCreateUser up to its await
handleCreateUser(userData) ==
    /\ (nextId - (PageSize + 2)) + SubmitsInFlight < MaxCreates
    /\ isFormLoading' = TRUE
    /\ requests' = Append(requests, CreateRequest(userData, currentPage,
                                                  debouncedSearchQuery))

\* handleUpdateUser up to its await
handleUpdateUser(userData) ==
    /\ editingUser # Null
    /\ isFormLoading' = TRUE
    /\ requests' = Append(requests,
                          UpdateRequest(editingUser.id, userData, currentPage,
                                        debouncedSearchQuery))

\* the form is submitted
handleSubmitForm(userData) ==
    /\ showForm
    /\ Len(requests) < MaxInFlight
    /\ SubmitsInFlight < MaxSubmits
    /\ IF editingUser # Null THEN handleUpdateUser(userData)
       ELSE handleCreateUser(userData)
    /\ UNCHANGED <<users, pagination, isLoading, searchQuery,
                   debouncedSearchQuery, timerArmed, currentPage,
                   showDeleteModal, userToDelete, latestFetch, failedFetch,
                   deleted, burst>>
    /\ UNCHANGED <<formVars, notifications>>
    /\ UNCHANGED outsideHandlers

\* the backend answers the create request at position i
ServeCreateUser(i, net) ==
    LET r == requests[i]
        served == PostUser(db, r.form, nextId, FALSE)
    IN /\ r.kind = "create"
       /\ r.stage = "sent"
       /\ db' = IF Reaches(net) THEN served.table ELSE db
       /\ nextId' = IF Reaches(net) /\ served.table # db THEN nextId + 1
                    ELSE nextId
       /\ requests' = [requests EXCEPT ![i].stage = "answered",
                                       ![i].outcome = Fetch(net, served.response)]
       /\ UNCHANGED <<users, pagination, isLoading, searchQuery,
                      debouncedSearchQuery, timerArmed, currentPage,
                      showDeleteModal, userToDelete, latestFetch, failedFetch,
                      deleted, burst>>
       /\ UNCHANGED <<cacheVars, apiResult, formVars, noteVars, qrVars>>

\* the backend answers the update request at position i
ServeUpdateUser(i, net) ==
    LET r == requests[i]
        served == PutUser(db, r.id, r.form, FALSE)
    IN /\ r.kind = "update"
       /\ r.stage = "sent"
       /\ db' = IF Reaches(net) THEN served.table ELSE db
       /\ requests' = [requests EXCEPT ![i].stage = "answered",
                                       ![i].outcome = Fetch(net, served.response)]
       /\ UNCHANGED <<users, pagination, isLoading, searchQuery,
                      debouncedSearchQuery, timerArmed, currentPage,
                      showDeleteModal, userToDelete, latestFetch, failedFetch,
                      deleted, burst>>
       /\ UNCHANGED <<cacheVars, nextId, apiResult, formVars, noteVars,
                      qrVars>>

\* handleCreateUser closing the form whatever the response
handleCreateUserResolved_CloseAlways(i) ==
    LET r == requests[i]
        response == createUser(r.outcome)
    IN /\ r.kind = "create"
       /\ r.stage = "answered"
       /\ CanNotify
       /\ showForm' = FALSE
       /\ IF response.success
          THEN /\ latestFetch.seq < MaxFetches
               /\ addNotification("success",
                                  AppMsg("User created successfully!"))
               /\ loadUsers(Remove(requests, i), r.page, r.search)
          ELSE /\ addNotification("error", response.message)
               /\ requests' = Remove(requests, i)
               /\ UNCHANGED <<isLoading, latestFetch>>
       /\ isFormLoading' = FALSE
       /\ UNCHANGED <<users, pagination, searchQuery, debouncedSearchQuery,
                      timerArmed, currentPage, showDeleteModal, userToDelete,
                      failedFetch, deleted, burst>>
       /\ UNCHANGED <<editingUser, scannedUserData, showQRModal, qrModalMode,
                      qrUser>>
       /\ UNCHANGED outsideHandlers

\* handleCreateUser from the resolution of its await
handleCreateUserResolved(i) ==
    LET r == requests[i]
        response == createUser(r.outcome)
    IN /\ r.kind = "create"
       /\ r.stage = "answered"
       /\ CanNotify
       /\ IF response.success
          THEN /\ latestFetch.seq < MaxFetches
               /\ addNotification("success",
                                  AppMsg("User created successfully!"))
               /\ showForm' = FALSE
               /\ loadUsers(Remove(requests, i), r.page, r.search)
          ELSE /\ addNotification("error", response.message)
               /\ requests' = Remove(requests, i)
               /\ UNCHANGED <<showForm, isLoading, latestFetch>>
       /\ isFormLoading' = FALSE
       /\ UNCHANGED <<users, pagination, searchQuery, debouncedSearchQuery,
                      timerArmed, currentPage, showDeleteModal, userToDelete,
                      failedFetch, deleted, burst>>
       /\ UNCHANGED <<editingUser, scannedUserData, showQRModal, qrModalMode,
                      qrUser>>
       /\ UNCHANGED outsideHandlers

\* handleUpdateUser from the resolution of its await
handleUpdateUserResolved(i) ==
    LET r == requests[i]
        response == updateUser(r.outcome)
    IN /\ r.kind = "update"
       /\ r.stage = "answered"
       /\ CanNotify
       /\ IF response.success
          THEN /\ latestFetch.seq < MaxFetches
               /\ addNotification("success",
                                  AppMsg("User updated successfully!"))
               /\ showForm' = FALSE
               /\ editingUser' = Null
               /\ loadUsers(Remove(requests, i), r.page, r.search)
          ELSE /\ addNotification("error", response.message)
               /\ requests' = Remove(requests, i)
               /\ UNCHANGED <<showForm, editingUser, isLoading, latestFetch>>
       /\ isFormLoading' = FALSE
       /\ UNCHANGED <<users, pagination, searchQuery, debouncedSearchQuery,
                      timerArmed, currentPage, showDeleteModal, userToDelete,
                      failedFetch, deleted, burst>>
       /\ UNCHANGED <<scannedUserData, showQRModal, qrModalMode, qrUser>>
       /\ UNCHANGED outsideHandlers

----------------------------------------------------------------------------
(* JSON text.  A string value is a sequence of pieces: a piece is a run of  *)
(* ordinary characters, or one of the characters the code or the encoding   *)
(* treats specially (the quote, the backslash, the letter T).  A text is a  *)
(* sequence of tokens; the content of a string token is in its escaped form *)

Quote == "\""
Backslash == "\\"

JString(s) == [kind |-> "string", s |-> s]
JNumber(n) == [kind |-> "number", n |-> n]
JArray == [kind |-> "array"]
\* an object: its property names (strings) in order, and their values
JObject(names, values) ==
    [kind |-> "object", names |-> names, values |-> values]
EmptyString == JString(<<>>)

Punct(c) == [k |-> c]
StringToken(raw) == [k |-> "string", raw |-> raw]
LiteralToken(v) == [k |-> "literal", v |-> v]
\* characters that begin no JSON value
Garbage == [k |-> "garbage"]

\* the escaped form of a string
RECURSIVE Escape(_)
Escape(s) ==
    IF s = <<>> THEN <<>>
    ELSE (IF Head(s) \in {Quote, Backslash} THEN <<Backslash, Head(s)>>
          ELSE <<Head(s)>>) \o Escape(Tail(s))

\* the escaped form is well formed: no bare quote, no dangling backslash
RECURSIVE WellEscaped(_)
WellEscaped(raw) ==
    IF raw = <<>> THEN TRUE
    ELSE IF Head(raw) = Quote THEN FALSE
    ELSE IF Head(raw) = Backslash
    THEN /\ Len(raw) >= 2
         /\ raw[2] \in {Quote, Backslash}
         /\ WellEscaped(Tail(Tail(raw)))
    ELSE WellEscaped(Tail(raw))

RECURSIVE Unescape(_)
Unescape(raw) ==
    IF raw = <<>> THEN <<>>
    ELSE IF Head(raw) = Backslash
    THEN <<raw[2]>> \o Unescape(Tail(Tail(raw)))
    ELSE <<Head(raw)>> \o Unescape(Tail(raw))

\* JSON.stringify of a value; a property whose value is undefined is left out
RECURSIVE JsonStringify(_)
RECURSIVE StringifyMembers(_, _, _)
StringifyMembers(names, values, first) ==
    IF names = <<>> THEN <<>>
    ELSE IF Head(values) = Undefined
    THEN StringifyMembers(Tail(names), Tail(values), first)
    ELSE (IF first THEN <<>> ELSE <<Punct(",")>>)
         \o <<StringToken(Escape(Head(names))), Punct(":")>>
         \o JsonStringify(Head(values))
         \o StringifyMembers(Tail(names), Tail(values), FALSE)

JsonStringify(v) ==
    IF v.kind = "string" THEN <<StringToken(Escape(v.s))>>
    ELSE IF v.kind = "object"
    THEN <<Punct("{")>> \o StringifyMembers(v.names, v.values, TRUE)
         \o <<Punct("}")>>
    ELSE IF v.kind = "array" THEN <<Punct("["), Punct("]")>>
    ELSE <<LiteralToken(v)>>

\* JSON.parse: the value at position i of the text and the position after it
NoParse == [ok |-> FALSE, value |-> Null, next |-> 0]
Parsed(v, next) == [ok |-> TRUE, value |-> v, next |-> next]

TokenAt(text, i) == IF i <= Len(text) THEN text[i] ELSE Garbage

RECURSIVE ParseValue(_, _)
RECURSIVE ParseMembers(_, _, _, _)
ParseMembers(text, i, names, values) ==
    LET name == TokenAt(text, i)
        member == ParseValue(text, i + 2)
    IN IF \/ name.k # "string"
          \/ ~WellEscaped(name.raw)
          \/ TokenAt(text, i + 1).k # ":"
          \/ ~member.ok
       THEN NoParse
       ELSE LET ns == Append(names, Unescape(name.raw))
                vs == Append(values, member.value)
            IN IF TokenAt(text, member.next).k = ","
               THEN ParseMembers(text, member.next + 1, ns, vs)
               ELSE IF TokenAt(text, member.next).k = "}"
               THEN Parsed(JObject(ns, vs), member.next + 1)
               ELSE NoParse

ParseValue(text, i) ==
    LET t == TokenAt(text, i)
    IN IF t.k = "string"
       THEN IF WellEscaped(t.raw) THEN Parsed(JString(Unescape(t.raw)), i + 1)
            ELSE NoParse
       ELSE IF t.k = "literal" THEN Parsed(t.v, i + 1)
       ELSE IF t.k = "[" /\ TokenAt(text, i + 1).k = "]"
       THEN Parsed(JArray, i + 2)
       ELSE IF t.k = "{"
       THEN IF TokenAt(text, i + 1).k = "}"
            THEN Parsed(JObject(<<>>, <<>>), i + 2)
            ELSE ParseMembers(text, i + 1, <<>>, <<>>)
       ELSE NoParse

\* JSON.parse(text): ok is FALSE when it throws SyntaxError
JsonParse(text) ==
    LET r == ParseValue(text, 1)
    IN IF r.ok /\ r.next = Len(text) + 1 THEN r ELSE NoParse

\* value.name for a value that is neither null nor undefined: own properties
\* only (the names read here are on no prototype); the last duplicate wins
RECURSIVE Lookup(_, _, _)
Lookup(names, values, name) ==
    IF names = <<>> THEN Undefined
    ELSE LET rest == Lookup(Tail(names), Tail(values), name)
         IN IF rest # Undefined THEN rest
            ELSE IF Head(names) = name THEN Head(values)
            ELSE Undefined

Property(v, name) ==
    IF v.kind = "object" THEN Lookup(v.names, v.values, name) ELSE Undefined

\* ToBoolean of a value
ToBoolean(v) ==
    IF v.kind = "string" THEN v.s # <<>>
    ELSE IF v.kind = "number" THEN v.n # 0
    ELSE IF v.kind = "boolean" THEN v.value
    ELSE v.kind \notin {"null", "undefined"}

\* value || ''
OrEmpty(v) == IF ToBoolean(v) THEN v ELSE EmptyString

----------------------------------------------------------------------------
(* QRCodeModal: the payload codec *)

\* a profile as the list holds it (User): the optional fields may be
\* undefined, null or strings
QrUser(fullName, email, phoneNumber, bio, avatarUrl, dateOfBirth, location) ==
    [fullName |-> fullName, email |-> email, phoneNumber |-> phoneNumber,
     bio |-> bio, avatarUrl |-> avatarUrl, dateOfBirth |-> dateOfBirth,
     location |-> location]

\* s.split('T')[0]
RECURSIVE SplitT0(_)
SplitT0(s) ==
    IF s = <<>> \/ Head(s) = "T" THEN <<>>
    ELSE <<Head(s)>> \o SplitT0(Tail(s))

DataNames ==
    << <<"fullName">>, <<"email">>, <<"phoneNumber">>, <<"bio">>,
       <<"avatarUrl">>, <<"dateOfBirth">>, <<"location">> >>

UserProfileTag == JString(<<"user-profile">>)

\* qrData with the date of birth as the list holds it
QrData_WholeDate(user) ==
    JObject(<< <<"type">>, <<"version">>, <<"data">> >>,
            << UserProfileTag,
               JString(<<"1.0">>),
               JObject(DataNames,
                       << user.fullName,
                          user.email,
                          OrEmpty(user.phoneNumber),
                          OrEmpty(user.bio),
                          OrEmpty(user.avatarUrl),
                          OrEmpty(user.dateOfBirth),
                          OrEmpty(user.location) >>) >>)

\* the qrData object of generateQRCode
QrData(user) ==
    JObject(<< <<"type">>, <<"version">>, <<"data">> >>,
            << UserProfileTag,
               JString(<<"1.0">>),
               JObject(DataNames,
                       << user.fullName,
                          user.email,
                          OrEmpty(user.phoneNumber),
                          OrEmpty(user.bio),
                          OrEmpty(user.avatarUrl),
                          IF ToBoolean(user.dateOfBirth)
                          THEN JString(SplitT0(user.dateOfBirth.s))
                          ELSE EmptyString,
                          OrEmpty(user.location) >>) >>)

\* the text generateQRCode hands to QRCode.toDataURL
QrPayload(user) == JsonStringify(QrData(user))

\* what handleScanResult does with a text: delivered, when it calls
\* onUserDataScanned(userData) and onClose(); error, when it calls setErrorFn
ScanRejected == [delivered |-> FALSE, error |-> TRUE, userData |-> Null]
ScanAccepted(userData) ==
    [delivered |-> TRUE, error |-> FALSE, userData |-> userData]

\* handleScanResult with the check of the required fields after the delivery
handleScanResult_DeliverFirst(result) ==
    LET parsed == JsonParse(result)
        parsedData == parsed.value
        data == Property(parsedData, <<"data">>)
        userData ==
            QrUser(OrEmpty(Property(data, <<"fullName">>)),
                   OrEmpty(Property(data, <<"email">>)),
                   OrEmpty(Property(data, <<"phoneNumber">>)),
                   OrEmpty(Property(data, <<"bio">>)),
                   OrEmpty(Property(data, <<"avatarUrl">>)),
                   OrEmpty(Property(data, <<"dateOfBirth">>)),
                   OrEmpty(Property(data, <<"location">>)))
    IN IF ~parsed.ok \/ parsedData = Null THEN ScanRejected
       ELSE IF \/ Property(parsedData, <<"type">>) # UserProfileTag
               \/ ~ToBoolean(data)
       THEN ScanRejected
       ELSE IF ~ToBoolean(userData.fullName) \/ ~ToBoolean(userData.email)
       THEN [delivered |-> TRUE, error |-> TRUE, userData |-> userData]
       ELSE ScanAccepted(userData)

\* handleScanResult(result, setErrorFn): JSON.parse throws on a text that is
\* not JSON, and reading a property of null throws; both end in the catch
handleScanResult(result) ==
    LET parsed == JsonParse(result)
        parsedData == parsed.value
        data == Property(parsedData, <<"data">>)
        userData ==
            QrUser(OrEmpty(Property(data, <<"fullName">>)),
                   OrEmpty(Property(data, <<"email">>)),
                   OrEmpty(Property(data, <<"phoneNumber">>)),
                   OrEmpty(Property(data, <<"bio">>)),
                   OrEmpty(Property(data, <<"avatarUrl">>)),
                   OrEmpty(Property(data, <<"dateOfBirth">>)),
                   OrEmpty(Property(data, <<"location">>)))
    IN IF ~parsed.ok \/ parsedData = Null THEN ScanRejected
       ELSE IF \/ Property(parsedData, <<"type">>) # UserProfileTag
               \/ ~ToBoolean(data)
       THEN ScanRejected
       ELSE IF ~ToBoolean(userData.fullName) \/ ~ToBoolean(userData.email)
       THEN ScanRejected
       ELSE ScanAccepted(userData)

----------------------------------------------------------------------------
(* QRCodeModal and the handlers of App around it (SpecQR) *)

MaxOpens == 1
MaxScanners == 2
MaxTasks == 2

\* the profiles on display
QrNames == << JString(<<"Ann">>), JString(<<"O", Quote, "T", Backslash>>) >>
QrOptionals == << Undefined, Null, EmptyString, JString(<<"+1", Quote>>) >>
QrDates ==
    << Null, JString(<<"2000-01-02", "T", "00:00:00.000Z">>),
       JString(<<"2000-01-02">>) >>

DisplayedUsers ==
    [i \in 1..12 |->
        LET name == QrNames[((i - 1) % Len(QrNames)) + 1]
            opt == QrOptionals[((i - 1) % Len(QrOptionals)) + 1]
            date == QrDates[((i - 1) % Len(QrDates)) + 1]
        IN QrUser(name, JString(<<"ann@x.io">>), opt, opt, Null, date,
                  JString(<<"Oslo", Backslash>>))]

\* the texts of QR codes made elsewhere, and texts that are not JSON
Tagged(type, data) ==
    JsonStringify(JObject(<< <<"type">>, <<"data">> >>, <<type, data>>))
Fields(fullName, email) ==
    JObject(<< <<"fullName">>, <<"email">> >>, <<fullName, email>>)
SomeName == JString(<<"Bob">>)
SomeEmail == JString(<<"bob@x.io">>)

NotJsonTexts ==
    { <<Garbage>>,
      <<Punct("{"), StringToken(<<"type">>), Punct(":")>>,
      <<StringToken(<<Backslash>>)>>,
      Tagged(UserProfileTag, Fields(SomeName, SomeEmail)) \o <<Garbage>> }
WrongTypeTexts ==
    { Tagged(JString(<<"vcard">>), Fields(SomeName, SomeEmail)),
      Tagged(Undefined, Fields(SomeName, SomeEmail)),
      Tagged(JNumber(1), Fields(SomeName, SomeEmail)),
      JsonStringify(JString(<<"user-profile">>)),
      JsonStringify(JArray) }
NoDataTexts ==
    { Tagged(UserProfileTag, Undefined), Tagged(UserProfileTag, Null) }
NoFieldTexts ==
    { Tagged(UserProfileTag, Fields(Undefined, SomeEmail)),
      Tagged(UserProfileTag, Fields(SomeName, Undefined)),
      Tagged(UserProfileTag, Fields(EmptyString, SomeEmail)),
      Tagged(UserProfileTag, Fields(SomeName, EmptyString)),
      Tagged(UserProfileTag, Fields(Null, SomeEmail)),
      Tagged(UserProfileTag, JObject(<<>>, <<>>)) }
OtherTexts ==
    { <<LiteralToken(Null)>>,
      Tagged(UserProfileTag, JString(<<"Bob">>)),
      Tagged(UserProfileTag, Fields(SomeName, SomeEmail)),
      Tagged(UserProfileTag, Fields(JNumber(7), Bool(TRUE))) }

\* the texts of the codes generateQRCode makes for the profiles on display,
\* computed once
PayloadOf == [i \in DOMAIN DisplayedUsers |-> QrPayload(DisplayedUsers[i])]
GeneratedTexts == {PayloadOf[i] : i \in DOMAIN DisplayedUsers}

ScanTexts ==
    NotJsonTexts \cup WrongTypeTexts \cup NoDataTexts \cup NoFieldTexts
        \cup OtherTexts \cup GeneratedTexts

\* an uploaded image: QrScanner.scanImage resolves with the text of its QR
\* code, or rejects when it finds none
NoQrCode == [kind |-> "noQrCode"]
QrCodeOf(text) == [kind |-> "qrCode", text |-> text]
Files == {NoQrCode} \cup {QrCodeOf(t) : t \in ScanTexts}

\* the devices QrScanner.listCameras can list
Devices == {1, 2}
CameraLists == {<<>>, <<1>>, <<1, 2>>}
\* selectedCameraId = ''
NoCamera == 0

\* the image of the generated code, by the text it carries
NoImage == [kind |-> "none"]

\* the messages of cameraError and uploadError
NoError == ""
InvalidQr == "Invalid QR code format or missing required information."
NoVideo == "Video element not available. Please try again."
NoAccess == "Failed to access camera"
Undetected == "Could not detect a valid QR code in the uploaded image."

\* a QrScanner instance: live while it holds the camera
Scanner(mount) ==
    [mount |-> mount, device |-> NoCamera, live |-> FALSE, stopped |-> FALSE,
     destroyed |-> FALSE]

\* an await or a timer of the modal in flight; mount: the mounting of the
\* modal it belongs to; camera: the selectedCameraId its closure holds
Task(op, mount, scanner, camera, target) ==
    [op |-> op, mount |-> mount, scanner |-> scanner, camera |-> camera,
     target |-> target]

\* the history of the last call of handleScanResult
NoScan ==
    [by |-> "none", mounted |-> FALSE, detected |-> FALSE, text |-> <<>>,
     result |-> ScanRejected]
\* by: "camera" or "upload"; mounted: the modal that scanned is still there
ScanBy(by, mounted, text, result) ==
    [by |-> by, mounted |-> mounted, detected |-> TRUE, text |-> text,
     result |-> result]
NotDetected(mounted) ==
    [by |-> "upload", mounted |-> mounted, detected |-> FALSE, text |-> <<>>,
     result |-> ScanRejected]

\* the history of the last camera switch that came to its end
NoSwitch == [outcome |-> "none", camera |-> NoCamera]
SwitchEnded(outcome, camera) == [outcome |-> outcome, camera |-> camera]

\* the component instance a closure belongs to is still mounted
Current(mount) == showQRModal /\ mount = mountId

\* the video element is rendered: scan mode, inside the hasCamera branch
VideoRendered == showQRModal /\ qrModalMode = "scan" /\ hasCamera

\* scanner.stop(); scanner.destroy() on qrScannerRef.current, if any
Release(list, ref) ==
    IF ref = 0 THEN list
    ELSE [list EXCEPT ![ref] = [@ EXCEPT !.live = FALSE, !.stopped = TRUE,
                                         !.destroyed = TRUE]]

\* the state of a QRCodeModal that has just been mounted
FreshComponent ==
    /\ qrCodeDataUrl' = NoImage
    /\ isScanning' = FALSE
    /\ cameraError' = NoError
    /\ uploadError' = NoError
    /\ hasCamera' = FALSE
    /\ cameras' = <<>>
    /\ selectedCameraId' = NoCamera

componentVars == <<qrCodeDataUrl, isScanning, cameraError, uploadError,
                   hasCamera, cameras, selectedCameraId>>

\* App renders the modal: {showQRModal && <QRCodeModal .../>}; its effects
\* start generateQRCode or checkCameraAvailability
MountModal(mode) ==
    /\ mountId' = mountId + 1
    /\ FreshComponent
    /\ tasks' = tasks \cup
          {Task(IF mode = "generate" THEN "generate" ELSE "check",
                mountId + 1, 0, NoCamera, NoCamera)}
    /\ UNCHANGED <<qrScannerRef, scanners>>

\* the modal leaves the tree: the cleanup of its effect runs and its state
\* is gone
UnmountModal ==
    /\ scanners' = Release(scanners, qrScannerRef)
    /\ qrScannerRef' = 0
    /\ FreshComponent

QrIdle ==
    /\ showForm = FALSE
    /\ editingUser = Null
    /\ scannedUserData = Null
    /\ showQRModal = FALSE
    /\ qrModalMode = "generate"
    /\ qrUser = Null
    /\ qrCodeDataUrl = NoImage
    /\ isScanning = FALSE
    /\ cameraError = NoError
    /\ uploadError = NoError
    /\ hasCamera = FALSE
    /\ cameras = <<>>
    /\ selectedCameraId = NoCamera
    /\ qrScannerRef = 0
    /\ scanners = <<>>
    /\ tasks = {}
    /\ lastScan = NoScan
    /\ lastSwitch = NoSwitch
    /\ mountId = 0

handleEdit(i) ==
    /\ ~showForm
    /\ ~showQRModal
    /\ editingUser' = users[i]
    /\ showForm' = TRUE
    /\ lastScan' = NoScan
    /\ lastSwitch' = NoSwitch
    /\ UNCHANGED <<scannedUserData, showQRModal, qrModalMode, qrUser,
                   componentVars, qrScannerRef, scanners,
                   tasks, mountId>>
    /\ UNCHANGED outsideQR

handleCancelForm ==
    /\ showForm
    /\ showForm' = FALSE
    /\ editingUser' = Null
    /\ scannedUserData' = Null
    /\ lastScan' = NoScan
    /\ lastSwitch' = NoSwitch
    /\ UNCHANGED <<showQRModal, qrModalMode, qrUser,
                   componentVars, qrScannerRef, scanners, tasks, mountId>>
    /\ UNCHANGED outsideQR

handleGenerateQR(i) ==
    /\ ~showForm
    /\ ~showQRModal
    /\ mountId < MaxOpens
    /\ Cardinality(tasks) < MaxTasks
    /\ qrUser' = users[i]
    /\ qrModalMode' = "generate"
    /\ showQRModal' = TRUE
    /\ MountModal("generate")
    /\ lastScan' = NoScan
    /\ lastSwitch' = NoSwitch
    /\ UNCHANGED <<showForm, editingUser, scannedUserData>>
    /\ UNCHANGED outsideQR

handleScanQR ==
    /\ ~showForm
    /\ ~showQRModal
    /\ mountId < MaxOpens
    /\ Cardinality(tasks) < MaxTasks
    /\ qrModalMode' = "scan"
    /\ showQRModal' = TRUE
    /\ MountModal("scan")
    /\ lastScan' = NoScan
    /\ lastSwitch' = NoSwitch
    /\ UNCHANGED <<showForm, editingUser, scannedUserData, qrUser>>
    /\ UNCHANGED outsideQR

\* the close button of the modal: onClose={() => setShowQRModal(false)}
onClose ==
    /\ showQRModal
    /\ showQRModal' = FALSE
    /\ UnmountModal
    /\ UNCHANGED <<tasks, mountId>>
    /\ lastScan' = NoScan
    /\ lastSwitch' = NoSwitch
    /\ UNCHANGED <<showForm, editingUser, scannedUserData, qrModalMode,
                   qrUser>>
    /\ UNCHANGED outsideQR

\* generateQRCode from the resolution of QRCode.toDataURL; fits: the text is
\* within the capacity of a QR code
generateQRCode(task, fits) ==
    /\ task.op = "generate"
    /\ tasks' = tasks \ {task}
    /\ qrCodeDataUrl' = IF Current(task.mount) /\ fits
                        THEN QrCodeOf(QrPayload(qrUser))
                        ELSE qrCodeDataUrl
    /\ lastScan' = NoScan
    /\ lastSwitch' = NoSwitch
    /\ UNCHANGED <<formVars, isScanning, cameraError,
                   uploadError, hasCamera, cameras, selectedCameraId,
                   qrScannerRef, scanners, mountId>>
    /\ UNCHANGED outsideQR

\* what the awaits of checkCameraAvailability give
CameraChecks ==
    {[throws |-> TRUE, has |-> FALSE, list |-> <<>>]}
        \cup {[throws |-> FALSE, has |-> FALSE, list |-> <<>>]}
        \cup {[throws |-> FALSE, has |-> TRUE, list |-> l] : l \in CameraLists}

\* setSelectedCameraId(id) and the render after it: a new id gives a new
\* checkCameraAvailability, so the effect on [isOpen, mode,
\* checkCameraAvailability] runs again: its cleanup releases the scanner of
\* qrScannerRef, its body calls checkCameraAvailability
SelectCamera(id, others) ==
    /\ selectedCameraId' = id
    /\ IF id # selectedCameraId
       THEN /\ scanners' = Release(scanners, qrScannerRef)
            /\ qrScannerRef' = 0
            /\ tasks' = others \cup {Task("check", mountId, 0, id, NoCamera)}
       ELSE /\ tasks' = others
            /\ UNCHANGED <<qrScannerRef, scanners>>

\* checkCameraAvailability from the resolution of its awaits
checkCameraAvailability(task, check) ==
    /\ task.op = "check"
    /\ IF ~Current(task.mount)
       THEN /\ tasks' = tasks \ {task}
            /\ UNCHANGED <<hasCamera, cameras, selectedCameraId, qrScannerRef,
                           scanners>>
       ELSE IF check.throws
       THEN /\ hasCamera' = FALSE
            /\ cameras' = <<>>
            /\ tasks' = tasks \ {task}
            /\ UNCHANGED <<selectedCameraId, qrScannerRef, scanners>>
       ELSE IF ~check.has
       THEN /\ hasCamera' = FALSE
            /\ tasks' = tasks \ {task}
            /\ UNCHANGED <<cameras, selectedCameraId, qrScannerRef, scanners>>
       ELSE /\ hasCamera' = TRUE
            /\ cameras' = check.list
            /\ IF check.list # <<>> /\ task.camera = NoCamera
               THEN SelectCamera(check.list[1], tasks \ {task})
               ELSE /\ tasks' = tasks \ {task}
                    /\ UNCHANGED <<selectedCameraId, qrScannerRef, scanners>>
    /\ lastScan' = NoScan
    /\ lastSwitch' = NoSwitch
    /\ UNCHANGED <<formVars, qrCodeDataUrl, isScanning,
                   cameraError, uploadError, mountId>>
    /\ UNCHANGED outsideQR

\* startCameraScanning up to its first await, in a closure that holds camera
\* as selectedCameraId; restart: it runs from the timeout of handleCameraChange
StartScanning(camera, others, restart) ==
    /\ Len(scanners) < MaxScanners
    /\ isScanning' = TRUE
    /\ cameraError' = NoError
    /\ scanners' = Append(scanners, Scanner(mountId))
    /\ qrScannerRef' = Len(scanners) + 1
    /\ tasks' = others \cup
          {Task(IF restart THEN "restarting" ELSE "start", mountId,
                Len(scanners) + 1, camera, NoCamera)}

\* the Start Camera button
startCameraScanning ==
    /\ VideoRendered
    /\ ~isScanning
    /\ Cardinality(tasks) < MaxTasks
    /\ StartScanning(selectedCameraId, tasks, FALSE)
    /\ lastScan' = NoScan
    /\ lastSwitch' = NoSwitch
    /\ UNCHANGED <<formVars, qrCodeDataUrl, uploadError,
                   hasCamera, cameras, selectedCameraId, mountId>>
    /\ UNCHANGED outsideQR

\* the camera a scanner opens when it is given the id camera
DeviceFor(camera) == IF camera = NoCamera THEN 1 ELSE camera

\* startCameraScanning from the resolution of setCamera and start; ok: they
\* resolved.  A scanner that was stopped meanwhile does not go live.
startCameraScanningResolved(task, ok) ==
    LET s == task.scanner
        restarted == task.op = "restarting"
    IN /\ task.op \in {"start", "restarting"}
       /\ tasks' = tasks \ {task}
       /\ scanners' =
             IF ok /\ ~scanners[s].stopped
             THEN [scanners EXCEPT ![s] = [@ EXCEPT !.live = TRUE,
                                     !.device = DeviceFor(task.camera)]]
             ELSE scanners
       /\ IF ~ok /\ Current(task.mount)
          THEN /\ cameraError' = NoAccess
               /\ isScanning' = FALSE
          ELSE UNCHANGED <<cameraError, isScanning>>
       /\ lastScan' = NoScan
       /\ lastSwitch' = IF restarted /\ Current(task.mount)
                        THEN SwitchEnded("restarted", task.camera)
                        ELSE NoSwitch
       /\ UNCHANGED <<formVars, qrCodeDataUrl, uploadError,
                      hasCamera, cameras, selectedCameraId, qrScannerRef,
                      mountId>>
       /\ UNCHANGED outsideQR

\* the Stop Camera button
stopCameraScanning ==
    /\ VideoRendered
    /\ isScanning
    /\ scanners' = Release(scanners, qrScannerRef)
    /\ qrScannerRef' = 0
    /\ isScanning' = FALSE
    /\ lastScan' = NoScan
    /\ lastSwitch' = NoSwitch
    /\ UNCHANGED <<formVars, qrCodeDataUrl, cameraError,
                   uploadError, hasCamera, cameras, selectedCameraId, tasks,
                   mountId>>
    /\ UNCHANGED outsideQR

\* the camera select: handleCameraChange up to its await, and the render
\* after it
handleCameraChange(cameraId) ==
    LET switching == isScanning /\ qrScannerRef # 0
        switch == Task("switch", mountId, qrScannerRef, selectedCameraId,
                       cameraId)
    IN /\ VideoRendered
       /\ Len(cameras) > 1
       /\ \E k \in 1..Len(cameras) : cameras[k] = cameraId
       /\ cameraId # selectedCameraId
       /\ Cardinality(tasks) + 2 <= MaxTasks
       /\ cameraError' = NoError
       /\ SelectCamera(cameraId,
                       IF switching THEN tasks \cup {switch} ELSE tasks)
       /\ lastScan' = NoScan
       /\ lastSwitch' = NoSwitch
       /\ UNCHANGED <<formVars, qrCodeDataUrl, isScanning,
                      uploadError, hasCamera, cameras, mountId>>
       /\ UNCHANGED outsideQR

\* handleCameraChange from the resolution of setCamera; ok: it resolved.  In
\* the catch, stopCameraScanning acts on the scanner of qrScannerRef, and the
\* timeout holds the startCameraScanning of the render before the change
handleCameraChangeResolved(task, ok) ==
    LET s == task.scanner
        mine == Current(task.mount)
        switched == ok /\ scanners[s].live
        moved == IF switched
                 THEN [scanners EXCEPT ![s] = [@ EXCEPT !.device = task.target]]
                 ELSE scanners
    IN /\ task.op = "switch"
       /\ IF ok
          THEN /\ tasks' = tasks \ {task}
               /\ scanners' = moved
               /\ UNCHANGED <<qrScannerRef, isScanning>>
          ELSE /\ tasks' = (tasks \ {task}) \cup
                     {Task("restart", task.mount, 0, task.camera, NoCamera)}
               /\ IF mine
                  THEN /\ scanners' = Release(scanners, qrScannerRef)
                       /\ qrScannerRef' = 0
                       /\ isScanning' = FALSE
                  ELSE UNCHANGED <<scanners, qrScannerRef, isScanning>>
       /\ lastScan' = NoScan
       /\ lastSwitch' = IF ok /\ mine
                        THEN SwitchEnded("switched", task.target)
                        ELSE NoSwitch
       /\ UNCHANGED <<formVars, qrCodeDataUrl, cameraError,
                      uploadError, hasCamera, cameras, selectedCameraId,
                      mountId>>
       /\ UNCHANGED outsideQR

\* setTimeout(() => startCameraScanning(), 100) fires
restartTimeout(task) ==
    /\ task.op = "restart"
    /\ IF Current(task.mount) /\ VideoRendered
       THEN /\ StartScanning(task.camera, tasks \ {task}, TRUE)
            /\ lastSwitch' = NoSwitch
       ELSE /\ tasks' = tasks \ {task}
            /\ cameraError' = IF Current(task.mount) THEN NoVideo
                              ELSE cameraError
            /\ lastSwitch' = IF Current(task.mount)
                             THEN SwitchEnded("abandoned", task.camera)
                             ELSE NoSwitch
            /\ UNCHANGED <<isScanning, scanners, qrScannerRef>>
    /\ lastScan' = NoScan
    /\ UNCHANGED <<formVars, qrCodeDataUrl, uploadError,
                   hasCamera, cameras, selectedCameraId, mountId>>
    /\ UNCHANGED outsideQR

\* handleScanResult on each of the texts, computed once
ScanResults == [text \in ScanTexts |-> handleScanResult(text)]

\* handleUserDataScanned(userData) of App, then onClose()
DeliverScan(userData) ==
    /\ scannedUserData' = userData
    /\ showForm' = TRUE
    /\ editingUser' = Null
    /\ showQRModal' = FALSE
    /\ IF showQRModal THEN UnmountModal
       ELSE UNCHANGED <<componentVars, qrScannerRef, scanners>>

\* handleScanResult calling onClose() in its catch as well
ApplyScan_CloseOnError(result, field, mine) ==
    IF result.delivered
    THEN DeliverScan(result.userData)
    ELSE /\ showQRModal' = FALSE
         /\ IF showQRModal THEN UnmountModal
            ELSE UNCHANGED <<componentVars, qrScannerRef, scanners>>
         /\ UNCHANGED <<showForm, editingUser, scannedUserData>>

\* what handleScanResult does with its result; field: the error message of
\* setErrorFn; mine: the modal that scanned is still mounted
ApplyScan(result, field, mine) ==
    IF result.delivered
    THEN DeliverScan(result.userData)
    ELSE /\ cameraError' = IF result.error /\ mine /\ field = "camera"
                           THEN InvalidQr ELSE cameraError
         /\ uploadError' = IF result.error /\ mine /\ field = "upload"
                           THEN InvalidQr ELSE uploadError
         /\ UNCHANGED <<showForm, editingUser, scannedUserData, showQRModal,
                        qrCodeDataUrl, isScanning, hasCamera, cameras,
                        selectedCameraId, qrScannerRef, scanners>>

\* the callback of a scanner: handleScanResult(result, setCameraError) for
\* the text of a code in front of the camera
onDecode(s, text) ==
    LET result == ScanResults[text]
        mine == Current(scanners[s].mount)
    IN /\ scanners[s].live
       /\ lastScan' = ScanBy("camera", mine, text, result)
       /\ lastSwitch' = NoSwitch
       /\ ApplyScan(result, "camera", mine)
       /\ UNCHANGED <<qrModalMode, qrUser, tasks, mountId>>
       /\ UNCHANGED outsideQR

\* the file input: handleFileUpload up to its await
handleFileUpload ==
    /\ showQRModal
    /\ qrModalMode = "scan"
    /\ Cardinality(tasks) < MaxTasks
    /\ uploadError' = NoError
    /\ tasks' = tasks \cup {Task("upload", mountId, 0, NoCamera, NoCamera)}
    /\ lastScan' = NoScan
    /\ lastSwitch' = NoSwitch
    /\ UNCHANGED <<formVars, qrCodeDataUrl, isScanning,
                   cameraError, hasCamera, cameras, selectedCameraId,
                   qrScannerRef, scanners, mountId>>
    /\ UNCHANGED outsideQR

\* handleFileUpload from the resolution of QrScanner.scanImage(file)
handleFileUploadResolved(task, file) ==
    LET mine == Current(task.mount)
    IN /\ task.op = "upload"
       /\ tasks' = tasks \ {task}
       /\ lastSwitch' = NoSwitch
       /\ IF file = NoQrCode
          THEN /\ lastScan' = NotDetected(mine)
               /\ uploadError' = IF mine THEN Undetected ELSE uploadError
               /\ UNCHANGED <<showForm, editingUser, scannedUserData,
                              showQRModal, qrCodeDataUrl, isScanning,
                              cameraError, hasCamera, cameras,
                              selectedCameraId, qrScannerRef, scanners>>
          ELSE /\ lastScan' = ScanBy("upload", mine, file.text,
                                     ScanResults[file.text])
               /\ ApplyScan(ScanResults[file.text], "upload", mine)
       /\ UNCHANGED <<qrModalMode, qrUser, mountId>>
       /\ UNCHANGED outsideQR

\* the dismiss buttons of the two error boxes
dismissCameraError ==
    /\ VideoRendered
    /\ cameraError # NoError
    /\ cameraError' = NoError
    /\ lastScan' = NoScan
    /\ lastSwitch' = NoSwitch
    /\ UNCHANGED <<formVars, qrCodeDataUrl, isScanning,
                   uploadError, hasCamera, cameras, selectedCameraId,
                   qrScannerRef, scanners, tasks, mountId>>
    /\ UNCHANGED outsideQR

dismissUploadError ==
    /\ showQRModal
    /\ qrModalMode = "scan"
    /\ uploadError # NoError
    /\ uploadError' = NoError
    /\ lastScan' = NoScan
    /\ lastSwitch' = NoSwitch
    /\ UNCHANGED <<formVars, qrCodeDataUrl, isScanning,
                   cameraError, hasCamera, cameras, selectedCameraId,
                   qrScannerRef, scanners, tasks, mountId>>
    /\ UNCHANGED outsideQR

----------------------------------------------------------------------------
(* Specifications *)

CacheSpecInit ==
    /\ CacheStoreInit
    /\ ApiInit
    /\ AppIdle
    /\ QrIdle

SpecCache == CacheSpecInit /\ [][CacheStoreNext]_vars

\* SpecCorrupt: the cache store of a page that finds, under the key of the
\* watched pair, an item that is no cache entry (localStorage outlives the
\* page and is shared by every script of the origin).
CorruptItems == {RawItem, JsonItem}

CorruptInit ==
    /\ watched \in WatchedPairs
    /\ memoryCache = <<>>
    /\ \E item \in CorruptItems :
          localStorage = [k \in LSKeys |->
                            IF k = KeyOf(watched) THEN item
                            ELSE IF StartsWith(k, ApiPrefix) THEN NoItem
                            ELSE RawItem]
    /\ now = 0
    /\ lastOp = OtherOp
    /\ setLog = NoSet
    /\ wcPending = [a \in WcArgs |-> 0]
    /\ wcStored = {}
    /\ wcLog = [a \in WcArgs |-> NoCall]
    /\ ApiInit
    /\ AppIdle
    /\ QrIdle

CorruptNext ==
    \/ \E data \in SetValues, ttlArg \in TtlArgs, lsThrows \in BOOLEAN :
          set(watched, data, ttlArg, lsThrows)
    \/ \E q \in Pairs, lsThrows \in BOOLEAN : get(q, lsThrows)
    \/ \E q \in Pairs, lsThrows \in BOOLEAN : invalidate(q, lsThrows)
    \/ \E lsThrows \in BOOLEAN : clear(lsThrows)
    \/ Reload
    \/ Tick

SpecCorrupt == CorruptInit /\ [][CorruptNext]_vars

(* SpecReload: sets and gets of one key across page reloads *)

ReloadInit ==
    /\ watched \in WatchedPairs
    /\ CacheInit
    /\ ApiInit
    /\ AppIdle
    /\ QrIdle

ReloadNext ==
    \/ \E data \in SetValues, ttlArg \in TtlArgs, lsThrows \in BOOLEAN :
          set(watched, data, ttlArg, lsThrows)
    \/ \E lsThrows \in BOOLEAN : get(watched, lsThrows)
    \/ Reload
    \/ Tick

SpecReload == ReloadInit /\ [][ReloadNext]_vars

(* SpecKeys: the store called for endpoints that differ in one character *)

KeysInit ==
    /\ watched \in IsolationPairs
    /\ CacheInit
    /\ ApiInit
    /\ AppIdle
    /\ QrIdle

KeysNext ==
    \/ \E q \in IsolationPairs, data \in SetValues, ttlArg \in TtlArgs,
          lsThrows \in BOOLEAN : set(q, data, ttlArg, lsThrows)
    \/ \E lsThrows \in BOOLEAN : get(watched, lsThrows)
    \/ \E q \in IsolationPairs, lsThrows \in BOOLEAN : invalidate(q, lsThrows)
    \/ Tick

SpecKeys == KeysInit /\ [][KeysNext]_vars

WrapSpecInit ==
    /\ WrapInit
    /\ ApiInit
    /\ AppIdle
    /\ QrIdle

SpecWrap == WrapSpecInit /\ [][WrapNext]_vars

ApiSpecInit ==
    /\ CacheInit
    /\ watched = NoPair
    /\ ApiInit
    /\ AppIdle
    /\ QrIdle

SpecApi == ApiSpecInit /\ [][ApiNext]_vars

Init ==
    /\ CacheInit
    /\ watched = NoPair
    /\ db = InitialUsers
    /\ nextId = PageSize + 2
    /\ apiResult = NoApiCall
    /\ AppInit
    /\ QrIdle

Next ==
    \/ \E query \in SearchTexts : handleSearch(query)
    \/ DebounceFire
    \/ \E page \in PagesOffered(pagination) : handlePageChange(page)
    \/ \E i \in 1..Len(users) : handleDelete(i)
    \/ handleCancelDelete
    \/ handleDeleteUser
    \/ \E i \in 1..Len(requests), net \in AppNetworks : ServeGetUsers(i, net)
    \/ \E i \in 1..Len(requests), net \in AppNetworks : ServeDeleteUser(i, net)
    \/ \E i \in 1..Len(requests) : loadUsersResolved(i)
    \/ \E i \in 1..Len(requests) : handleDeleteUserResolved(i)
    \/ \E i \in 1..Len(notifications) : removeNotification(i)

Spec == Init /\ [][Next]_vars

(* SpecBackend: the App coordinator against the list handler of server.ts *)

BackendNext ==
    \/ \E query \in SearchTexts : handleSearch(query)
    \/ DebounceFire
    \/ \E i \in 1..Len(requests), net \in AppNetworks, dbFails \in BOOLEAN :
          ServeUsers(i, net, dbFails)
    \/ \E i \in 1..Len(requests) : loadUsersResolved(i)
    \/ \E i \in 1..Len(notifications) : removeNotification(i)

SpecBackend == Init /\ [][BackendNext]_vars

(* SpecMutate: the App coordinator creating, updating and deleting profiles *)

\* the text the user types, and the rows whose buttons the user presses
MutateTexts == {<<97>>}
MutateRows == {1}

MutateNext ==
    \/ \E query \in MutateTexts : ~showForm /\ handleSearch(query)
    \/ DebounceFire
    \/ ~showForm /\ ~showDeleteModal /\ openForm
    \/ \E i \in MutateRows \cap 1..Len(users) :
          ListShown /\ ~showDeleteModal /\ handleEdit(i)
    \/ ~isFormLoading /\ handleCancelForm
    \/ \E userData \in AppForms : handleSubmitForm(userData)
    \/ \E i \in MutateRows \cap 1..Len(users) : ~showForm /\ handleDelete(i)
    \/ handleCancelDelete
    \/ handleDeleteUser
    \/ \E i \in 1..Len(requests), net \in AppNetworks : ServeGetUsers(i, net)
    \/ \E i \in 1..Len(requests), net \in AppNetworks : ServeCreateUser(i, net)
    \/ \E i \in 1..Len(requests), net \in AppNetworks : ServeUpdateUser(i, net)
    \/ \E i \in 1..Len(requests), net \in AppNetworks : ServeDeleteUser(i, net)
    \/ \E i \in 1..Len(requests) : loadUsersResolved(i)
    \/ \E i \in 1..Len(requests) : handleCreateUserResolved(i)
    \/ \E i \in 1..Len(requests) : handleUpdateUserResolved(i)
    \/ \E i \in 1..Len(requests) : handleDeleteUserResolved(i)
    \/ \E i \in 1..Len(notifications) : removeNotification(i)

SpecMutate == Init /\ [][MutateNext]_vars

\* scanning a profile from an uploaded image, then the form: the images
\* hold the code of a displayed profile or no code
ScanFormFiles == {NoQrCode} \cup {QrCodeOf(t) : t \in GeneratedTexts}
NoCameraCheck == [throws |-> FALSE, has |-> FALSE, list |-> <<>>]

ScanFormNext ==
    \/ handleScanQR
    \/ onClose
    \/ \E task \in tasks : checkCameraAvailability(task, NoCameraCheck)
    \/ handleFileUpload
    \/ \E task \in tasks, file \in ScanFormFiles :
          handleFileUploadResolved(task, file)
    \/ ~showForm /\ ~showQRModal /\ openForm
    \/ \E i \in MutateRows \cap 1..Len(users) : ListShown /\ handleEdit(i)
    \/ ~isFormLoading /\ handleCancelForm
    \/ \E userData \in AppForms : handleSubmitForm(userData)
    \/ \E i \in 1..Len(requests), net \in AppNetworks : ServeGetUsers(i, net)
    \/ \E i \in 1..Len(requests), net \in AppNetworks : ServeCreateUser(i, net)
    \/ \E i \in 1..Len(requests), net \in AppNetworks : ServeUpdateUser(i, net)
    \/ \E i \in 1..Len(requests) : loadUsersResolved(i)
    \/ \E i \in 1..Len(requests) : handleCreateUserResolved(i)
    \/ \E i \in 1..Len(requests) : handleUpdateUserResolved(i)
    \/ \E i \in 1..Len(notifications) : removeNotification(i)

SpecScanForm == Init /\ [][ScanFormNext]_vars

(* SpecQR: the list is on display, the modals are closed *)

QrInit ==
    /\ CacheInit
    /\ watched = NoPair
    /\ ApiInit
    /\ users = DisplayedUsers
    /\ pagination = [currentPage |-> 1, totalPages |-> 1,
                     totalUsers |-> Len(DisplayedUsers),
                     limit |-> Len(DisplayedUsers), hasNextPage |-> FALSE,
                     hasPrevPage |-> FALSE]
    /\ isLoading = FALSE
    /\ searchQuery = <<>>
    /\ debouncedSearchQuery = <<>>
    /\ timerArmed = FALSE
    /\ currentPage = 1
    /\ showDeleteModal = FALSE
    /\ userToDelete = NoUser
    /\ requests = <<>>
    /\ latestFetch = FetchPending(0, <<>>)
    /\ failedFetch = FALSE
    /\ deleted = {}
    /\ burst = NoBurst
    /\ notifications = <<>>
    /\ isFormLoading = FALSE
    /\ QrIdle

QrNext ==
    \/ \E i \in 1..Len(DisplayedUsers) : handleEdit(i)
    \/ handleCancelForm
    \/ \E i \in 1..Len(DisplayedUsers) : handleGenerateQR(i)
    \/ handleScanQR
    \/ onClose
    \/ \E task \in tasks, fits \in BOOLEAN : generateQRCode(task, fits)
    \/ \E task \in tasks, check \in CameraChecks :
          checkCameraAvailability(task, check)
    \/ startCameraScanning
    \/ \E task \in tasks, ok \in BOOLEAN : startCameraScanningResolved(task, ok)
    \/ stopCameraScanning
    \/ \E cameraId \in Devices : handleCameraChange(cameraId)
    \/ \E task \in tasks, ok \in BOOLEAN : handleCameraChangeResolved(task, ok)
    \/ \E task \in tasks : restartTimeout(task)
    \/ \E s \in 1..Len(scanners), text \in ScanTexts : onDecode(s, text)
    \/ handleFileUpload
    \/ \E task \in tasks, file \in Files : handleFileUploadResolved(task, file)
    \/ dismissCameraError
    \/ dismissUploadError

SpecQR == QrInit /\ [][QrNext]_vars

----------------------------------------------------------------------------
(* Claims about the cache store (SpecCache) *)

\* C1: a get made immediately after a set with ttl > 0 returns the stored
\* value, and a get made once ttl has elapsed since the most recent set of
\* that (endpoint, params) returns absent (null).
C1_SetGetExpire ==
    lastOp.op = "get" =>
        /\ (lastOp.immediate /\ setLog.ttl > 0 => lastOp.value = setLog.value)
        /\ (setLog.done /\ setLog.ttl > 0 /\ now - setLog.time >= setLog.ttl
                => lastOp.value = Null)

\* C2: the memory layer never holds more than MAX_MEMORY_ITEMS entries.
C2_MemoryBounded == Len(memoryCache) <= MAX_MEMORY_ITEMS

\* the entries of the other keys, in the order of the Map
Others(m, key) == SelectSeq(m, LAMBDA e : e.key # key)

\* C17: FIFO eviction.  A set called while the memory layer is at capacity
\* evicts exactly one entry, the one inserted first among those present (the
\* first key of the Map, whatever was read since); a set below capacity
\* evicts nothing.  Either way the key that was set is present afterwards.
C17_FifoEviction ==
    [][lastOp'.op = "set"
          => /\ MemHas(memoryCache', KeyOf(watched))
             /\ Others(memoryCache', KeyOf(watched))
                    = IF Len(memoryCache) >= MAX_MEMORY_ITEMS
                      THEN Others(Tail(memoryCache), KeyOf(watched))
                      ELSE Others(memoryCache, KeyOf(watched))]_vars

\* a set at capacity has evicted the oldest entry of another key
C17_Witness ==
    /\ lastOp.op = "set"
    /\ lastOp.full
    /\ Len(memoryCache) = MAX_MEMORY_ITEMS
    /\ memoryCache[Len(memoryCache)].key = KeyOf(watched)
    /\ memoryCache[1].key # KeyOf(watched)

\* the key has an entry and every entry the layers hold for it has expired
HasExpired(m, ls, t, key) ==
    /\ MemHas(m, key) \/ ls[key].kind = "entry"
    /\ MemHas(m, key) => ~isValidEntry(m[MemIndex(m, key)], t)
    /\ ls[key].kind \in {"none", "entry"}
    /\ ls[key].kind = "entry" => ~isValidEntry(ls[key], t)

\* C18: lazy eviction.  A get for a key whose entry has expired (with a
\* working localStorage) returns absent, and after it the key is in neither
\* the memory layer nor localStorage.
C18_LazyEviction ==
    [][(/\ lastOp'.op = "get"
        /\ ~lastOp'.lsThrows
        /\ HasExpired(memoryCache, localStorage, now, KeyOf(watched)))
          => /\ lastOp'.value = Null
             /\ ~MemHas(memoryCache', KeyOf(watched))
             /\ localStorage'[KeyOf(watched)].kind = "none"]_vars

\* after the step the key is in neither layer, a get for it returns absent
\* whenever it is made, and the entries of the other keys are as before
RemovedExactly(key) ==
    /\ ~MemHas(memoryCache', key)
    /\ localStorage'[key].kind = "none"
    /\ \A t \in now'..MaxTime, lsThrows \in BOOLEAN :
           CacheGet(memoryCache', localStorage', t, watched.endpoint,
                    watched.params, lsThrows).result = Null
    /\ Others(memoryCache', key) = Others(memoryCache, key)
    /\ \A k \in DOMAIN localStorage \ {key} :
           localStorage'[k] = localStorage[k]

PatternRemoved(pattern) ==
    /\ memoryCache'
           = SelectSeq(memoryCache, LAMBDA e : ~Includes(e.key, pattern))
    /\ \A q \in Pairs :
           localStorage'[KeyOf(q)]
               = IF Includes(KeyOf(q), pattern) THEN NoItem
                 ELSE localStorage[KeyOf(q)]

C21_NamespaceConfined ==
    [][\A k \in LSKeys :
          ~StartsWith(k, ApiPrefix) => localStorage'[k] = localStorage[k]]_vars

\* after the step the memory layer is empty, localStorage has no item under
\* a key with the prefix, a get returns absent for every pair whenever it is
\* made, and the items under the other keys are as before
Cleared ==
    /\ memoryCache' = <<>>
    /\ \A k \in LSKeys :
          localStorage'[k] = IF StartsWith(k, ApiPrefix) THEN NoItem
                             ELSE localStorage[k]
    /\ \A q \in Pairs, t \in now'..MaxTime, lsThrows \in BOOLEAN :
          CacheGet(memoryCache', localStorage', t, q.endpoint, q.params,
                   lsThrows).result = Null

NoneThrows ==
    /\ \A q \in Pairs :
          /\ ~CacheGet(memoryCache, localStorage, now, q.endpoint, q.params,
                       TRUE).thrown
          /\ ~CacheInvalidate(memoryCache, localStorage, q.endpoint, q.params,
                              TRUE).thrown
          /\ \A data \in SetValues, ttlArg \in TtlArgs :
                ~CacheSet(memoryCache, localStorage, now, q.endpoint, data,
                          q.params, TtlOf(ttlArg), TRUE).thrown
    /\ \A pattern \in Patterns :
          ~CacheInvalidatePattern(memoryCache, localStorage, pattern,
                                  TRUE).thrown
    /\ ~CacheClear(memoryCache, localStorage, TRUE).thrown

\* C23: when the localStorage calls throw, set, get, invalidate,
\* invalidatePattern and clear do not propagate the error, and a get made
\* right after a set returns the value that was set, whether or not the
\* localStorage calls of the two threw.
C23_StorageFailuresSwallowed ==
    /\ NoneThrows
    /\ (lastOp.op = "get" /\ lastOp.immediate)
           => lastOp.value = setLog.value

\* a get whose localStorage calls threw has returned the value of a set
\* whose localStorage write threw
C23_Witness ==
    /\ lastOp.op = "get"
    /\ lastOp.immediate
    /\ lastOp.lsThrows
    /\ setLog.value = OkA
    /\ lastOp.value = OkA
    /\ localStorage[KeyOf(watched)].kind = "none"

----------------------------------------------------------------------------
(* Claims about the cache store over a corrupt item (SpecCorrupt) *)

\* C24: a get (with a working localStorage) for a key that the memory layer
\* does not hold and under which localStorage holds an item that is no cache
\* entry returns absent and removes the item from localStorage.
C24_CorruptEvicted ==
    [][(/\ lastOp'.op = "get"
        /\ ~lastOp'.lsThrows
        /\ ~MemHas(memoryCache, KeyOf(watched))
        /\ localStorage[KeyOf(watched)] \in CorruptItems)
          => /\ lastOp'.value = Null
             /\ localStorage'[KeyOf(watched)] = NoItem]_vars

----------------------------------------------------------------------------
(* Claims about withCache (SpecWrap) *)

WcKey == Key(WcEndpoint, ArgsParam(1))
WcMemHolds ==
    /\ MemHas(memoryCache, WcKey)
    /\ memoryCache[MemIndex(memoryCache, WcKey)]
           = MemEntry(WcKey, wcLog[1].result, wcLog[1].time, TtlOf(WcTtl))

\* C3: the wrapper never stores a result whose success marker is false or
\* missing: every result it handed to the store, and every entry the layers
\* hold, has success = true.
C3_OnlySuccessStored ==
    /\ \A r \in wcStored : r.kind = "object" /\ r.success = "true"
    /\ \A i \in 1..Len(memoryCache) : memoryCache[i].data.success = "true"
    /\ \A k \in LSKeys :
          localStorage[k].kind = "entry" => localStorage[k].data.success = "true"

\* C3 witness: the wrapped operation has resolved to a failed result after
\* the wrapper stored a successful one.
C3_Witness ==
    /\ lastOp.op = "wcReturn"
    /\ lastOp.value = Failed
    /\ wcStored # {}
    /\ MemHas(memoryCache, WcKey)

\* the second call of C4: a wrapped call made within ttl of a call that
\* invoked the operation and returned a success result
C4_SecondCall ==
    /\ lastOp.op = "wcCall"
    /\ wcLog[1].done
    /\ IsSuccessResult(wcLog[1].result)
    /\ now - wcLog[1].time < TtlOf(WcTtl)

C36_OverlapInvokesOnce == \A a \in WcArgs : wcPending[a] <= 1

----------------------------------------------------------------------------
(* Claims about the coordinator (Spec) *)

NoListInFlight == \A i \in 1..Len(requests) : requests[i].kind # "list"

C32_LoadingTracksFetches == isLoading <=> ~NoListInFlight

----------------------------------------------------------------------------
(* Claims about the coordinator against server.ts (SpecBackend) *)

\* C11: in every state of the coordinator there is a page descriptor, and
\* it has currentPage >= 1, totalPages >= 1,
\* totalPages = max(1, ceil(totalUsers / limit)),
\* hasNextPage <=> currentPage < totalPages, hasPrevPage <=> currentPage > 1.
C11_PageDescriptor ==
    /\ pagination # Undefined
    /\ pagination.currentPage >= 1
    /\ pagination.totalPages >= 1
    /\ pagination.totalPages
           = Max(1, CeilDiv(pagination.totalUsers, pagination.limit))
    /\ pagination.hasNextPage
           <=> pagination.currentPage < pagination.totalPages
    /\ pagination.hasPrevPage <=> pagination.currentPage > 1

----------------------------------------------------------------------------
(* Claims about the Profile API client (SpecApi) *)

Called == apiResult.op # "none"
NonOk == Called /\ ~apiResult.outcome.rejected /\ ~IsOk(apiResult.outcome.status)
GetById404 == apiResult.op = "getUserById" /\ NonOk /\ apiResult.outcome.status = 404

\* the data of a failure result of the operation
Placeholder(op) == IF op = "deleteUser" THEN Bool(FALSE) ELSE EmptyObject

\* C8: a non-2xx response yields success = false, a message that is the
\* server's error text or the generic HTTP-status message, and a data value
\* that is neither null nor undefined (get-by-id 404 excepted).
C8_NonOkResponse ==
    NonOk =>
        /\ ~apiResult.result.threw
        /\ apiResult.result.success = FALSE
        /\ \/ /\ apiResult.result.message.kind = "server"
              /\ apiResult.outcome.body.kind = "error"
              /\ apiResult.result.message.text = apiResult.outcome.body.error
           \/ /\ apiResult.result.message.kind = "http"
              /\ apiResult.result.message.status = apiResult.outcome.status
           \/ GetById404 /\ apiResult.result.message.kind = "domain"
        /\ \/ apiResult.result.data \notin {Null, Undefined}
           \/ GetById404

\* C9: no operation throws or rejects; a network failure or a body that is
\* no JSON (of a 2xx or a non-2xx response) gives the failure result with
\* the placeholder, success = false and a message.
C9_NoThrow ==
    Called =>
        /\ ~apiResult.result.threw
        /\ (apiResult.outcome.rejected \/ apiResult.outcome.body.kind = "html")
              => /\ apiResult.result.data = Placeholder(apiResult.op)
                 /\ apiResult.result.success = FALSE
                 /\ apiResult.result.message.kind = "exception"

\* an operation has met a 2xx response whose body is no JSON and has
\* returned a failure result
C9_Witness ==
    /\ Called
    /\ ~apiResult.outcome.rejected
    /\ IsOk(apiResult.outcome.status)
    /\ apiResult.outcome.body.kind = "html"
    /\ apiResult.result.success = FALSE

\* C10: getUserById answered with HTTP 404 and {error: 'User not found'}
\* returns success = false, the message 'User not found' and data = null;
\* any other failure of getUserById keeps the non-null placeholder.
C10_GetByIdNotFound ==
    apiResult.op = "getUserById" /\ ~apiResult.result.success =>
        IF GetById404 /\ apiResult.outcome.body = JsonError("User not found")
        THEN /\ apiResult.result.message.text = "User not found"
             /\ apiResult.result.data = Null
        ELSE apiResult.result.data = EmptyObject

----------------------------------------------------------------------------
(* Claims about the cache store across reloads (SpecReload)                *)

\* a get of the watched pair comes after its last set and a reload, within
\* the ttl of that set, for a value small enough for localStorage
AfterReload ==
    /\ lastOp'.op = "get"
    /\ setLog.done
    /\ JsonLength(setLog.value) < LS_MAX_LEN
    /\ memoryCache = <<>>
    /\ now - setLog.time < setLog.ttl

\* get returns value and holds it in memory with the set's timestamp and ttl
Restored(value) ==
    /\ lastOp'.value = value
    /\ memoryCache' = <<MemEntry(KeyOf(watched), value, setLog.time,
                                 setLog.ttl)>>

C34_GetIsFresh ==
    lastOp.op = "get" /\ setLog.done
        => lastOp.value \in {Null, setLog.value, JsonRoundTrip(setLog.value)}

----------------------------------------------------------------------------
(* Claims about the cache keys (SpecKeys)                                  *)

\* the (endpoint, params) pairs the key derivation is examined on
KeyInputs == Pairs \cup IsolationPairs \cup {EuroPair}

\* what was set for another pair is never returned for the watched pair
GetIsolated == lastOp.op = "get" /\ ~setLog.done => lastOp.value = Null

\* C35: two different (endpoint, params) pairs never derive the same cache
\* key, so a set or invalidate for one pair never changes what get returns
\* for another; and key derivation fails for no endpoint or params.
C35_KeyIsolation ==
    /\ GetIsolated
    /\ \A p \in KeyInputs : ~KeyThrows(p)
    /\ \A p, q \in KeyInputs \ {EuroPair} : p # q => KeyOf(p) # KeyOf(q)

----------------------------------------------------------------------------
(* Claims about the backend (SpecApi) *)

\* C25: after any sequence of POST, PUT and DELETE requests, no two stored
\* profiles share an email, and every stored profile has a non-empty
\* fullName and a non-empty email.
C25_StoredProfilesValid ==
    /\ \A i, j \in 1..Len(db) : i # j => db[i].email # db[j].email
    /\ \A i \in 1..Len(db) : db[i].fullName # <<>> /\ db[i].email # ""

\* two profiles are stored, and the PUT that would have given one of them
\* the email of the other has been answered 400
C25_Witness ==
    /\ Len(db) = 2
    /\ apiResult.op = "updateUser"
    /\ ~apiResult.outcome.rejected
    /\ apiResult.outcome.status = 400
    /\ apiResult.outcome.body = JsonError("Email already exists")

\* the statuses the failure clauses of C26 name for a request
Lacks(form) == form.fullName = <<>> \/ form.email = ""
PostFailures(table, form) ==
    IF Lacks(form) \/ HasEmail(table, form.email) THEN {400} ELSE {}
PutFailures(table, id, form) ==
    (IF Lacks(form) \/ HasEmailElsewhere(table, form.email, id)
     THEN {400} ELSE {})
        \cup (IF HasId(table, id) THEN {} ELSE {404})
DeleteFailures(table, id) == IF HasId(table, id) THEN {} ELSE {404}

\* the request is answered with one of the statuses and leaves the table
Fails(served, statuses) ==
    statuses # {} => served.response.status \in statuses /\ served.table = db

C27_ListAnswerIsPage ==
    (/\ apiResult.op = "getAllUsers"
     /\ ~apiResult.outcome.rejected
     /\ apiResult.outcome.status = 200
     /\ apiResult.outcome.body # NotJson)
        => /\ apiResult.outcome.body.kind = "page"
           /\ Len(apiResult.outcome.body.data) <= PageSize
           /\ apiResult.outcome.body.pagination.limit = PageSize

----------------------------------------------------------------------------
(* Claims about the App coordinator's fetches and mutations (SpecMutate)   *)

MutationSucceeds(i) ==
    \/ handleCreateUserResolved(i) /\ createUser(requests[i].outcome).success
    \/ handleUpdateUserResolved(i) /\ updateUser(requests[i].outcome).success
    \/ handleDeleteUserResolved(i) /\ deleteUser(requests[i].outcome).success

\* C29: after a successful create, update or delete exactly one list fetch is
\* dispatched, and it asks for the page number and the debounced search text
\* that are current when the mutation's response is handled.
C29_RefetchUsesCurrent ==
    [][\A i \in 1..Len(requests) :
          MutationSucceeds(i) =>
             /\ requests' = Append(Remove(requests, i),
                                   requests'[Len(requests')])
             /\ requests'[Len(requests')].kind = "list"
             /\ requests'[Len(requests')].page = currentPage
             /\ requests'[Len(requests')].search = debouncedSearchQuery]_vars

\* the response the handler of the mutation request r reads
MutationResponse(r) ==
    IF r.kind = "create" THEN createUser(r.outcome)
    ELSE IF r.kind = "update" THEN updateUser(r.outcome)
    ELSE deleteUser(r.outcome)

\* the mutation request at position i is resolved with a failure
MutationFails(i) ==
    /\ \/ handleCreateUserResolved(i)
       \/ handleUpdateUserResolved(i)
       \/ handleDeleteUserResolved(i)
    /\ ~MutationResponse(requests[i]).success

----------------------------------------------------------------------------
(* Claims about the QR modal (SpecQR) *)

\* what the form is to be prefilled with after a profile went through a QR
\* code: an absent optional field is '', the date of birth is its calendar
\* date (the piece before the T of an ISO timestamp)
Absent(v) == v \in {Undefined, Null}
OrBlank(v) == IF Absent(v) THEN EmptyString ELSE v
CalendarDate(v) ==
    IF Absent(v) \/ v = EmptyString THEN EmptyString ELSE JString(<<v.s[1]>>)
RoundTripOf(user) ==
    QrUser(user.fullName, user.email, OrBlank(user.phoneNumber),
           OrBlank(user.bio), OrBlank(user.avatarUrl),
           CalendarDate(user.dateOfBirth), OrBlank(user.location))

\* C12: QR round trip.  For every profile with a non-empty fullName and
\* email, handleScanResult on the text generateQRCode encodes succeeds and
\* delivers fullName and email as they were, each optional field as it was
\* or '' when absent, and dateOfBirth as the calendar date of the original:
\* for the image the modal shows, and for every scan of such a text.
C12_RoundTrip ==
    /\ qrCodeDataUrl # NoImage
           => handleScanResult(qrCodeDataUrl.text)
                  = ScanAccepted(RoundTripOf(qrUser))
    /\ \A i \in DOMAIN DisplayedUsers :
           lastScan.detected /\ lastScan.text = PayloadOf[i]
               => /\ lastScan.result
                         = ScanAccepted(RoundTripOf(DisplayedUsers[i]))
                  /\ scannedUserData = RoundTripOf(DisplayedUsers[i])
                  /\ showForm

\* a profile with a quote, a backslash and a T in its name, absent optional
\* fields and an ISO timestamp as date of birth went through
C12_Witness ==
    \E i \in DOMAIN DisplayedUsers :
        /\ DisplayedUsers[i].fullName = QrNames[2]
        /\ DisplayedUsers[i].phoneNumber = Null
        /\ DisplayedUsers[i].dateOfBirth = QrDates[2]
        /\ lastScan.detected
        /\ lastScan.text = PayloadOf[i]
        /\ scannedUserData = RoundTripOf(DisplayedUsers[i])
        /\ scannedUserData.phoneNumber = EmptyString
        /\ scannedUserData.dateOfBirth = JString(<<"2000-01-02">>)

\* the texts C13 is about: not JSON, a type tag other than 'user-profile',
\* no data object, or data without a non-empty fullName or email
RejectedTexts ==
    NotJsonTexts \cup WrongTypeTexts \cup NoDataTexts \cup NoFieldTexts

\* C13: decode rejection.  handleScanResult on a text that is not JSON, whose
\* type tag is not 'user-profile', whose data object is missing, or whose
\* data lacks a non-empty fullName or a non-empty email reports an error and
\* delivers no data.
C13_DecodeRejects ==
    lastScan.detected /\ lastScan.text \in RejectedTexts
        => /\ lastScan.result.error
           /\ ~lastScan.result.delivered
           /\ lastScan.mounted
                  => InvalidQr = IF lastScan.by = "camera" THEN cameraError
                                 ELSE uploadError

\* a text with the right tag and a fullName but an empty email was uploaded
C13_Witness ==
    /\ lastScan.by = "upload"
    /\ lastScan.text = Tagged(UserProfileTag, Fields(SomeName, EmptyString))
    /\ lastScan.mounted
    /\ uploadError = InvalidQr

\* the step is a scan that failed detection, parsing or validation
ScanFailed ==
    /\ lastScan'.by # "none"
    /\ ~lastScan'.detected \/ ~lastScan'.result.delivered

\* C14: failed scan changes nothing.  When a scan (camera frame or uploaded
\* image) fails, the state App gives the modal access to (scannedUserData,
\* showForm, editingUser through onUserDataScanned, showQRModal through
\* onClose) is unchanged, so the modal stays open, and of the two error
\* messages of the modal only the one of the scan's source is set.
C14_FailedScanChangesNothing ==
    [][ScanFailed
          => /\ scannedUserData' = scannedUserData
             /\ showForm' = showForm
             /\ editingUser' = editingUser
             /\ showQRModal' = showQRModal
             /\ lastScan'.mounted
                    => /\ showQRModal'
                       /\ IF lastScan'.by = "camera"
                          THEN /\ cameraError' = InvalidQr
                               /\ uploadError' = uploadError
                          ELSE /\ uploadError' \in {InvalidQr, Undetected}
                               /\ cameraError' = cameraError]_vars

\* a frame of the running camera held a code that is not a profile
C14_Witness ==
    /\ lastScan.by = "camera"
    /\ ~lastScan.result.delivered
    /\ lastScan.mounted
    /\ showQRModal
    /\ isScanning
    /\ cameraError = InvalidQr

\* the step leaves scan mode: the modal goes away (successful decode, close,
\* teardown), or the Stop Camera button ends the scanning
ExitsScanMode ==
    /\ qrModalMode = "scan"
    /\ \/ showQRModal /\ ~showQRModal'
       \/ /\ showQRModal'
          /\ isScanning /\ ~isScanning'
          /\ tasks' = tasks
          /\ cameraError' = cameraError

\* C15: camera release.  On every exit from scan mode (Stop Camera,
\* successful decode, modal close, teardown) every QrScanner instance the
\* modal created has been stopped and destroyed.
C15_CameraRelease ==
    [][ExitsScanMode
          => \A s \in 1..Len(scanners') :
                 scanners'[s].stopped /\ scanners'[s].destroyed]_vars

\* C16: camera hot-swap.  A camera switch during scanning that succeeds
\* leaves scanning in progress on the new device; one that fails ends with
\* scanning restarted on the previously selected device; either way the
\* switch ends with isScanning true and a live scanner.
C16_HotSwap ==
    lastSwitch.outcome # "none"
        => /\ isScanning
           /\ qrScannerRef # 0
           /\ scanners[qrScannerRef].live
           /\ scanners[qrScannerRef].device
                  = IF lastSwitch.outcome = "switched" THEN lastSwitch.camera
                    ELSE DeviceFor(lastSwitch.camera)

\* a setCamera or start of startCameraScanning of the mounted modal is
\* awaited
StartInProgress ==
    \E task \in tasks :
        task.op \in {"start", "restarting"} /\ Current(task.mount)

\* C37: in every state of the QR modal in which isScanning is true and no
\* start is in progress, qrScannerRef holds a scanner that has not been
\* stopped or destroyed, including after the camera list finishes loading
\* or selectedCameraId changes.
C37_ScanningHasScanner ==
    isScanning /\ ~StartInProgress
        => /\ qrScannerRef # 0
           /\ ~scanners[qrScannerRef].stopped
           /\ ~scanners[qrScannerRef].destroyed

\* C38: at most one QrScanner instance created by the modal exists
\* undestroyed at any time, including after a start that failed in
\* setCamera or start and when the restart timer of a failed camera switch
\* races with a manual Start Camera.
C38_OneScanner ==
    Cardinality({s \in 1..Len(scanners) : ~scanners[s].destroyed}) <= 1

----------------------------------------------------------------------------
(* Claims about scanned data and the form (SpecScanForm) *)

\* C39: whenever the profile form is closed (showForm becomes false) by a
\* cancel or by a successful create or update, scannedUserData is null
\* afterwards, so that a form opened later by Add User or Edit carries no
\* data of an earlier scan.
C39_ClosedFormForgetsScan ==
    [][showForm /\ ~showForm' => scannedUserData' = Null]_vars

----------------------------------------------------------------------------
(* Claims about the page buttons of the list (Spec) *)

====
